---- MODULE Spec2Model ----
(***************************************************************************)
(* Model of the mini-searchflow research workflow: the LangGraph node      *)
(* graph of src/graph/builder.py and the node functions of                 *)
(* src/graph/nodes/*.py.                                                   *)
(*                                                                         *)
(* A run is a sequence of supersteps.  `active` holds the nodes scheduled  *)
(* in the current superstep that have not run yet; every node reads the    *)
(* channel values committed by the previous superstep (`state`) and adds   *)
(* its update to the pending writes (`w`).  The destinations of a node are *)
(* its Command goto together with the edges registered for it in the       *)
(* builder.  When the last node of a superstep has run, the pending writes *)
(* are committed; two writes to the same plain (reducer-less) key in one   *)
(* superstep abort the run with an error raised to the caller.             *)
(***************************************************************************)
EXTENDS Integers, Sequences, FiniteSets, TLC

(* ---------------------------------------------------------------------- *)
(* Bounds                                                                  *)
(* ---------------------------------------------------------------------- *)
MaxQ == 2            \* sub-questions in a decomposition output
MaxAnswers == 3      \* answer records a run may accumulate
MaxIterBound == 1    \* largest configured max_decompose_interations
MaxWords == 2        \* words in a resume string
MaxResults == 2      \* entries of a search result list or a serialized list
MaxCites == 2        \* entries of a citation list given to merge_citations
MaxMsgs == 3         \* messages of a list given to compress_messages
MaxLimit == 4        \* token_limit of a ContextManager
MaxPrefix == 2       \* preserve_prefix_message_count of a ContextManager
MaxTranscript == 3   \* messages a worker stream accumulates
MaxSteps == 4        \* node transitions of a run that carry citations
MaxCalls == 3        \* tool calls of the coordinator's model response

(* ---------------------------------------------------------------------- *)
(* Data model                                                              *)
(* ---------------------------------------------------------------------- *)
END == "__end__"

TaskType == {"research", "analysis", "processing"}

Workers == {"researcher", "analyst", "coder"}

Nodes ==
  {"coordinator", "background_investigator", "decomposer", "human_feedback",
   "research_team", "reporter"} \cup Workers

\* Keys of the State schema.  An update key that is not a channel of the
\* schema is not stored.
StateKeys ==
  {"messages", "locale", "research_topic", "clarified_research_topic",
   "resources", "decompose_iterations", "son_questions",
   "auto_accepted_questions", "answers", "evidence", "enable_clarification",
   "clarification_rounds", "clarification_history",
   "is_clarification_complete", "max_clarification_rounds",
   "enable_background_investigation", "background_investigation_results",
   "need_more", "new_questions", "new_question_round", "goto", "final_report"}

\* The only key of State with a reducer (MessagesState.messages).
ReducerKeys == {"messages"}

\* Keys of preserve_state_meta_fields.
MetaKeys ==
  {"locale", "research_topic", "clarified_research_topic",
   "clarification_history", "enable_clarification",
   "max_clarification_rounds", "clarification_rounds", "resources"}

\* Values of SubQuestion.execution_res (Optional[str]).  kind is "null" for
\* None, "empty" for the empty string, "text" for a non-empty worker answer
\* and "error" for the error block, which names the agent and the question.
Res(kind, agent, q) == [kind |-> kind, agent |-> agent, q |-> q]

Null == Res("null", "none", 0)

\* Python truthiness of execution_res, as tested by `not question.execution_res`.
IsSet(res) == res.kind \notin {"null", "empty"}

\* son_questions: absent (present = FALSE) or a DecompositionResult.  locale
\* is "" for an empty locale string and "p" for a locale named by the plan.
NoPlan == [present |-> FALSE, hec |-> FALSE, qs |-> << >>, locale |-> ""]

\* Values of a meta field of the state: "absent" when the key was never
\* written, "default" for the value state.get supplies for an absent key,
\* "v" for a value given by the caller, "p" for the locale of a plan.
MetaValues == {"absent", "default", "v", "p"}

\* state.get(key, default) on a meta field.
MetaGet(st, k) == IF st.meta[k] = "absent" THEN "default" ELSE st.meta[k]

\* preserve_state_meta_fields returns the default of every field.
preserve_state_meta_fields_Defaults(st) == [k \in DOMAIN st.meta |-> "default"]

\* preserve_state_meta_fields: every meta key with state.get(key, default).
preserve_state_meta_fields(st) == [k \in DOMAIN st.meta |-> MetaGet(st, k)]

SubQuestion(id, st, ns) ==
  [id |-> id, step_type |-> st, need_search |-> ns, execution_res |-> Null]

\* `not son_questions or not getattr(son_questions, "questions", None)`
NoQuestions(sq) == ~sq.present \/ Len(sq.qs) = 0

\* Index of the first sub-question whose execution_res is falsy, 0 if none.
RECURSIVE FirstFrom(_, _)
FirstFrom(qs, i) ==
  IF i > Len(qs) THEN 0
  ELSE IF ~IsSet(qs[i].execution_res) THEN i
  ELSE FirstFrom(qs, i + 1)

FirstUnexecuted(qs) == FirstFrom(qs, 1)

(* ---------------------------------------------------------------------- *)
(* Dispatcher routing                                                      *)
(* ---------------------------------------------------------------------- *)
\* research_team_node: an incomplete sub-question whose step_type is none of
\* the three known types does not return; the loop goes on to the next one.
RECURSIVE NodeScan(_, _)
NodeScan(qs, i) ==
  IF i > Len(qs) THEN "reporter"
  ELSE IF ~IsSet(qs[i].execution_res) /\ qs[i].step_type = "research"
       THEN "researcher"
  ELSE IF ~IsSet(qs[i].execution_res) /\ qs[i].step_type = "analysis"
       THEN "analyst"
  ELSE IF ~IsSet(qs[i].execution_res) /\ qs[i].step_type = "processing"
       THEN "coder"
  ELSE NodeScan(qs, i + 1)

research_team_goto(sq) ==
  IF NoQuestions(sq) THEN "reporter" ELSE NodeScan(sq.qs, 1)

\* continue_to_running_research_team: the first incomplete sub-question
\* decides, with researcher as the default.
RECURSIVE EdgeScan(_, _)
EdgeScan(qs, i) ==
  IF i > Len(qs) THEN "reporter"
  ELSE IF ~IsSet(qs[i].execution_res)
       THEN IF qs[i].step_type = "research" THEN "researcher"
            ELSE IF qs[i].step_type = "analysis" THEN "analyst"
            ELSE IF qs[i].step_type = "processing" THEN "coder"
            ELSE "researcher"
  ELSE EdgeScan(qs, i + 1)

continue_to_running_research_team(sq) ==
  IF NoQuestions(sq) THEN "reporter" ELSE EdgeScan(sq.qs, 1)

(* ---------------------------------------------------------------------- *)
(* Decomposition repair and validation                                     *)
(* ---------------------------------------------------------------------- *)
\* A missing or empty step_type becomes analysis, whatever need_search is.
RepairStepTypes_AlwaysAnalysis(qs) ==
  [i \in 1..Len(qs) |->
     IF qs[i].step_type = "" THEN [qs[i] EXCEPT !.step_type = "analysis"]
     ELSE qs[i]]

\* Section 1 of validate_and_fix_subquestions: a missing or empty step_type
\* (modelled as "") is inferred from need_search.
RepairStepTypes(qs) ==
  [i \in 1..Len(qs) |->
     IF qs[i].step_type = ""
     THEN [qs[i] EXCEPT !.step_type =
             IF qs[i].need_search THEN "research" ELSE "analysis"]
     ELSE qs[i]]

RECURSIVE FirstResearch(_, _)
FirstResearch(qs, i) ==
  IF i > Len(qs) THEN 0
  ELSE IF qs[i].step_type = "research" THEN i
  ELSE FirstResearch(qs, i + 1)

\* The step_type that marks an entry of the question list that is no dict
\* (a string, say); such an entry has no keys, so no need_search.
NonDict == "<nondict>"

\* The fallback converts the first step to research and leaves its
\* need_search as it is.
EnforceSearch_FallbackTypeOnly(qs) ==
  IF \E i \in 1..Len(qs) : qs[i].need_search THEN qs
  ELSE IF Len(qs) = 0 THEN << SubQuestion(1, "research", TRUE) >>
  ELSE LET r == FirstResearch(qs, 1) IN
       IF r # 0 THEN [qs EXCEPT ![r].need_search = TRUE]
       ELSE IF qs[1].step_type # NonDict
       THEN [qs EXCEPT ![1].step_type = "research"]
       ELSE qs

\* Section 2: web-search enforcement.  The fallback converts the first
\* step only if it is a dict.
EnforceSearch(qs) ==
  IF \E i \in 1..Len(qs) : qs[i].need_search THEN qs
  ELSE IF Len(qs) = 0 THEN << SubQuestion(1, "research", TRUE) >>
  ELSE LET r == FirstResearch(qs, 1) IN
       IF r # 0 THEN [qs EXCEPT ![r].need_search = TRUE]
       ELSE IF qs[1].step_type # NonDict
       THEN [qs EXCEPT ![1].step_type = "research", ![1].need_search = TRUE]
       ELSE qs

validate_and_fix_subquestions(qs, enforce_web_search, enable_web_search) ==
  LET fixed == RepairStepTypes(qs) IN
  IF enforce_web_search /\ enable_web_search THEN EnforceSearch(fixed)
  ELSE fixed

\* The top-level fields validate_and_fix_subquestions fills in:
\* has_enough_context when the key is missing (hec_key says whether it is
\* there) and an empty title, from thought or with the default title.
FixTopLevel(plan) ==
  [plan EXCEPT
     !.hec_key = TRUE,
     !.hec = IF plan.hec_key THEN @ ELSE FALSE,
     !.title = IF plan.title # "" THEN @
               ELSE IF plan.thought # "" THEN plan.thought
               ELSE "Decomposition Result"]

\* validate_and_fix_subquestions on the whole plan dict.
ValidateAndFixDict(plan, enforce_web_search, enable_web_search) ==
  [FixTopLevel(plan) EXCEPT
     !.qs = validate_and_fix_subquestions(plan.qs, enforce_web_search,
                                          enable_web_search)]

\* DecompositionResult.model_validate: the required fields are present and
\* every step_type is a TaskType.
ModelValid(fields_ok, qs) ==
  fields_ok /\ \A i \in 1..Len(qs) : qs[i].step_type \in TaskType

(* ---------------------------------------------------------------------- *)
(* Resume strings of an interrupt                                          *)
(* ---------------------------------------------------------------------- *)
\* A resume value is None or a string, modelled as the sequence of its
\* words (the empty sequence is the empty string).
Words == {"[edit_plan]", "Looks", "approved!", "YES", "no", "token"}

NoFeedback == [none |-> TRUE, words |-> << >>]

Feedbacks ==
  {NoFeedback} \cup
  [none : {FALSE}, words : UNION {[1..n -> Words] : n \in 0..MaxWords}]

\* `not feedback`
Falsy(feedback) == feedback.none \/ Len(feedback.words) = 0

\* str.lower and str.upper on the words.
Lower(word) ==
  CASE word = "Looks" -> "looks"
    [] word = "YES" -> "yes"
    [] OTHER -> word

Upper(word) ==
  CASE word = "[edit_plan]" -> "[EDIT_PLAN]"
    [] word = "Looks" -> "LOOKS"
    [] word = "approved!" -> "APPROVED!"
    [] word = "no" -> "NO"
    [] word = "token" -> "TOKEN"
    [] OTHER -> word

\* The approval keywords of _parse_approval.
approval_keywords ==
  {"approved", "approve", "yes", "proceed", "continue", "ok", "okay",
   "accepted", "accept", "[approved]"}

\* `keyword in text` for a lower-case word: the keywords that occur in it
\* as substrings.
KeywordsIn(lower_word) ==
  CASE lower_word = "approved!" -> {"approved", "approve"}
    [] lower_word = "yes" -> {"yes"}
    [] lower_word = "token" -> {"ok"}
    [] OTHER -> {}

\* The keywords are looked for in the feedback as typed, without lowering
\* its case.
_parse_approval_CaseSensitive(feedback) ==
  /\ ~Falsy(feedback)
  /\ \E i \in 1..Len(feedback.words) :
       KeywordsIn(feedback.words[i]) \cap approval_keywords # {}

\* ToolInterceptor._parse_approval: falsy feedback is a rejection; otherwise
\* the feedback is approved when its lower-case text contains a keyword.
_parse_approval(feedback) ==
  /\ ~Falsy(feedback)
  /\ \E i \in 1..Len(feedback.words) :
       KeywordsIn(Lower(feedback.words[i])) \cap approval_keywords # {}

\* str(feedback).strip().upper().startswith("[EDIT_PLAN]")
StartsWithEditPlan(feedback) == Upper(feedback.words[1]) = "[EDIT_PLAN]"

(* ---------------------------------------------------------------------- *)
(* CitationCollector                                                       *)
(* ---------------------------------------------------------------------- *)
\* URLs; "" is the empty URL string.
Urls == {"", "a", "b"}

\* Dictionaries are functions with a finite domain.
EmptyMap == [x \in {} |-> 0]

Put(map, key, value) ==
  [x \in DOMAIN map \cup {key} |-> IF x = key THEN value ELSE map[x]]

\* CitationMetadata, cut down to the fields the collector reads or writes:
\* title, relevance_score, content_snippet ("none" for None or an empty
\* string, "s" for the snippet of a search result, "c" for the snippet of
\* crawled content) and whether raw_content is set.
CitationMetadata(url, title, score, snippet, raw) ==
  [url |-> url, title |-> title, relevance_score |-> score,
   content_snippet |-> snippet, raw_content |-> raw]

\* CitationMetadata.from_search_result; a result without title has the
\* title "Untitled", content says whether the result has content.
from_search_result(result) ==
  CitationMetadata(result.url, result.title, result.score,
                   IF result.content THEN "s" ELSE "none",
                   result.raw_content)

\* CitationMetadata.to_dict: the keys of the dictionary; raw_content is not
\* among them.
MetadataToDict(metadata) ==
  [url |-> metadata.url, title |-> metadata.title,
   relevance_score |-> metadata.relevance_score,
   content_snippet |-> metadata.content_snippet]

\* CitationMetadata.from_dict: a key that is missing has its default.
MetadataFromDict(data) ==
  CitationMetadata(data.url, data.title, data.relevance_score,
                   data.content_snippet, FALSE)

\* CitationCollector.__init__: _citations, _citation_order, _used_citations
\* and _url_to_index.
EmptyCollector ==
  [citations |-> EmptyMap, order |-> << >>, used |-> {}, index |-> EmptyMap]

\* Entries of a search result list: an image entry, an entry without URL,
\* and page entries with a low or a high score.
SearchResult(type, url, score) ==
  [type |-> type, url |-> url, score |-> score, title |-> "t",
   content |-> FALSE, raw_content |-> FALSE]

SearchResults ==
  {SearchResult("image_url", "a", 1),
   SearchResult("page", "", 1),
   SearchResult("page", "a", 0),
   SearchResult("page", "a", 1),
   SearchResult("page", "b", 0),
   SearchResult("page", "b", 1)}

ResultLists == UNION {[1..n -> SearchResults] : n \in 0..MaxResults}

\* A URL that is already known is registered once more at the end of the
\* order list when its metadata is replaced.
AddSearchResult_Reappend(c, result) ==
  LET url == result.url
      metadata == from_search_result(result)
  IN
  IF result.type = "image_url" \/ url = "" THEN c
  ELSE IF url \notin DOMAIN c.citations
          \/ metadata.relevance_score > c.citations[url].relevance_score
  THEN [c EXCEPT !.citations = Put(c.citations, url, metadata),
                 !.order = Append(c.order, url),
                 !.index = Put(c.index, url, Len(c.order))]
  ELSE c

\* The body of the loop of add_from_search_results for one result.
AddSearchResult(c, result) ==
  LET url == result.url
      metadata == from_search_result(result)
  IN
  IF result.type = "image_url" \/ url = "" THEN c
  ELSE IF url \notin DOMAIN c.citations
  THEN [c EXCEPT !.citations = Put(c.citations, url, metadata),
                 !.order = Append(c.order, url),
                 !.index = Put(c.index, url, Len(c.order))]
  ELSE IF metadata.relevance_score > c.citations[url].relevance_score
  THEN [c EXCEPT !.citations = Put(c.citations, url, metadata)]
  ELSE c

RECURSIVE AddSearchResultsFrom(_, _, _)
AddSearchResultsFrom(c, results, i) ==
  IF i > Len(results) THEN c
  ELSE AddSearchResultsFrom(AddSearchResult(c, results[i]), results, i + 1)

add_from_search_results(c, results) == AddSearchResultsFrom(c, results, 1)

\* A crawl result for an unknown URL is dropped.
add_from_crawl_result_UpdateOnly(c, url, title, content) ==
  IF url \in DOMAIN c.citations
  THEN LET old == c.citations[url]
           new == [old EXCEPT
                     !.title = IF title \notin {"", "Untitled"} THEN title
                               ELSE @,
                     !.raw_content = IF content THEN TRUE ELSE @,
                     !.content_snippet =
                        IF content /\ old.content_snippet = "none" THEN "c"
                        ELSE @]
       IN  [c EXCEPT !.citations = Put(c.citations, url, new)]
  ELSE c

\* add_from_crawl_result; title is "", "Untitled" or a title, content says
\* whether page content was passed.
add_from_crawl_result(c, url, title, content) ==
  IF url \in DOMAIN c.citations
  THEN LET old == c.citations[url]
           new == [old EXCEPT
                     !.title = IF title \notin {"", "Untitled"} THEN title
                               ELSE @,
                     !.raw_content = IF content THEN TRUE ELSE @,
                     !.content_snippet =
                        IF content /\ old.content_snippet = "none" THEN "c"
                        ELSE @]
       IN  [c EXCEPT !.citations = Put(c.citations, url, new)]
  ELSE LET metadata == CitationMetadata(
                         url, IF title = "" THEN "Untitled" ELSE title, 0,
                         IF content THEN "c" ELSE "none", content)
       IN  [c EXCEPT !.citations = Put(c.citations, url, metadata),
                     !.order = Append(c.order, url),
                     !.index = Put(c.index, url, Len(c.order))]

\* get_number: the 1-based number of a URL, 0 standing for None.
get_number(c, url) == IF url \in DOMAIN c.index THEN c.index[url] + 1 ELSE 0

mark_used(c, url) ==
  IF url \in DOMAIN c.citations THEN [c EXCEPT !.used = @ \cup {url}] ELSE c

\* What mark_used returns: the number of the URL, 0 standing for None.
mark_used_result(c, url) ==
  IF url \in DOMAIN c.citations THEN get_number(c, url) ELSE 0

\* A Citation: its number and its metadata.
Citation(number, metadata) == [number |-> number, metadata |-> metadata]

get_all_citations(c) ==
  [i \in 1..Len(c.order) |-> Citation(i, c.citations[c.order[i]])]

\* The loop of get_used_citations from position i of the order list, with
\* the next number to give.
RECURSIVE GetUsedFrom(_, _, _, _)
GetUsedFrom(c, i, number, citations) ==
  IF i > Len(c.order) THEN citations
  ELSE IF c.order[i] \in c.used
  THEN GetUsedFrom(c, i + 1, number + 1,
                   Append(citations,
                          Citation(number, c.citations[c.order[i]])))
  ELSE GetUsedFrom(c, i + 1, number, citations)

\* The used citations keep the numbers they have among all citations.
get_used_citations_KeepNumbers(c) ==
  SelectSeq(get_all_citations(c),
            LAMBDA citation : citation.metadata.url \in c.used)

get_used_citations(c) == GetUsedFrom(c, 1, 1, << >>)

RECURSIVE MergeFrom(_, _, _)
MergeFrom(c, other, i) ==
  IF i > Len(other.order) THEN c
  ELSE LET url == other.order[i] IN
       IF url \notin DOMAIN c.citations
       THEN MergeFrom(
              [c EXCEPT !.citations = Put(c.citations, url,
                                          other.citations[url]),
                        !.order = Append(c.order, url),
                        !.index = Put(c.index, url, Len(c.order))],
              other, i + 1)
       ELSE MergeFrom(c, other, i + 1)

\* The metadata of other replaces the metadata of a URL both collectors
\* know.
merge_with_LastWriterWins(c, other) ==
  LET merged == MergeFrom(c, other, 1) IN
  [merged EXCEPT
     !.citations = [url \in DOMAIN merged.citations |->
                      IF url \in DOMAIN other.citations
                      THEN other.citations[url] ELSE merged.citations[url]],
     !.used = c.used \cup other.used]

merge_with(c, other) ==
  [MergeFrom(c, other, 1) EXCEPT !.used = c.used \cup other.used]

\* count: len(self._citations).
count(c) == Cardinality(DOMAIN c.citations)

clear == EmptyCollector

\* Serialized collectors: the metadata dictionaries of the "citations"
\* entries in list order and the "used_urls".
DictEntries ==
  {[url |-> url, title |-> "t", relevance_score |-> 0,
    content_snippet |-> "none"] : url \in Urls}

DictData ==
  [citations : UNION {[1..n -> DictEntries] : n \in 0..MaxResults},
   used_urls : {{}, {"a"}, {"b"}}]

RECURSIVE FromDictFrom(_, _, _)
FromDictFrom(c, citations, i) ==
  IF i > Len(citations) THEN c
  ELSE LET metadata == MetadataFromDict(citations[i])
           url == metadata.url
       IN
       FromDictFrom(
         [c EXCEPT !.citations = Put(c.citations, url, metadata),
                   !.order = Append(c.order, url),
                   !.index = Put(c.index, url, Len(c.order))],
         citations, i + 1)

from_dict(data) ==
  [FromDictFrom(EmptyCollector, data.citations, 1) EXCEPT
     !.used = data.used_urls]

\* get_all_citations and to_dict: the metadata dictionaries of the
\* citations in list order, and the used URLs.
to_dict(c) ==
  [citations |-> [i \in 1..Len(c.order) |->
                    MetadataToDict(c.citations[c.order[i]])],
   used_urls |-> c.used]

(* ---------------------------------------------------------------------- *)
(* merge_citations                                                         *)
(* ---------------------------------------------------------------------- *)
\* Citation dictionaries as the extractor builds them, cut down to the keys
\* merge_citations reads: url, relevance_score (has_score says whether the
\* key is there: a crawl citation has none) and title, which stands for the
\* three keys title, description and snippet ("" is an empty value).
\* Scores are the non-negative scores of a search tool.
CitationDicts ==
  {[url |-> "a", has_score |-> TRUE, relevance_score |-> 1, title |-> "p"],
   [url |-> "a", has_score |-> TRUE, relevance_score |-> 2, title |-> "q"],
   [url |-> "a", has_score |-> TRUE, relevance_score |-> 2, title |-> ""],
   [url |-> "a", has_score |-> FALSE, relevance_score |-> 0, title |-> "r"],
   [url |-> "b", has_score |-> TRUE, relevance_score |-> 0, title |-> "p"],
   [url |-> "", has_score |-> TRUE, relevance_score |-> 1, title |-> "p"]}

CitationLists == UNION {[1..n -> CitationDicts] : n \in 0..MaxCites}

\* seen_urls: the non-empty URLs of a list.
SeenUrls(list) == {list[i].url : i \in 1..Len(list)} \ {""}

\* citation.get("relevance_score", 0)
ScoreOf(citation) ==
  IF citation.has_score THEN citation.relevance_score ELSE 0

\* The position of the first entry of result with the URL.
FirstWithUrl(result, url) ==
  CHOOSE i \in 1..Len(result) :
    /\ result[i].url = url
    /\ \A j \in 1..(i - 1) : result[j].url # url

\* The selective update of an entry by a citation with a higher score.
UpdatedCitation(existing_citation, citation) ==
  [existing_citation EXCEPT
     !.has_score = @ \/ citation.has_score,
     !.relevance_score = IF citation.has_score THEN citation.relevance_score
                         ELSE @,
     !.title = IF citation.title # "" THEN citation.title ELSE @]

\* Every citation with a URL is appended, whether the URL is in the list
\* already or not.
MergeCitation_AlwaysAppend(result, citation) ==
  IF citation.url # "" THEN Append(result, citation) ELSE result

\* The body of the loop of merge_citations for one new citation.
MergeCitation(result, citation) ==
  LET url == citation.url IN
  IF url # "" /\ url \notin SeenUrls(result) THEN Append(result, citation)
  ELSE IF url \in SeenUrls(result)
  THEN LET i == FirstWithUrl(result, url) IN
       IF ScoreOf(citation) > ScoreOf(result[i])
       THEN [result EXCEPT ![i] = UpdatedCitation(result[i], citation)]
       ELSE result
  ELSE result

RECURSIVE MergeCitationsFrom(_, _, _)
MergeCitationsFrom(result, new, i) ==
  IF i > Len(new) THEN result
  ELSE MergeCitationsFrom(MergeCitation(result, new[i]), new, i + 1)

merge_citations(existing, new) == MergeCitationsFrom(existing, new, 1)

(* ---------------------------------------------------------------------- *)
(* ContextManager                                                          *)
(* ---------------------------------------------------------------------- *)
\* Messages, cut down to what the token count and the compression read.
\* form is the type of content ("str" or "list"); text is the token count
\* of a string content together with the role; long_raw says that the
\* content is a web_search result list (as JSON text of 2048 characters or
\* more, or as a list) with a raw_content of more than 1024 characters;
\* short is the token count of the JSON text written back after the
\* truncation of raw_content.
MessageKinds ==
  {[type |-> "system", name |-> "none", form |-> "str", text |-> 1,
    long_raw |-> FALSE, short |-> 0],
   [type |-> "human", name |-> "none", form |-> "str", text |-> 2,
    long_raw |-> FALSE, short |-> 0],
   [type |-> "ai", name |-> "none", form |-> "str", text |-> 3,
    long_raw |-> FALSE, short |-> 0],
   [type |-> "tool", name |-> "web_search", form |-> "str", text |-> 4,
    long_raw |-> TRUE, short |-> 2],
   [type |-> "tool", name |-> "web_search", form |-> "list", text |-> 0,
    long_raw |-> TRUE, short |-> 2],
   [type |-> "tool", name |-> "crawl_tool", form |-> "str", text |-> 2,
    long_raw |-> FALSE, short |-> 0]}

\* A message of a list carries its position in that list as pos.
MessageAt(kind, i) ==
  [type |-> kind.type, name |-> kind.name, form |-> kind.form,
   text |-> kind.text, long_raw |-> kind.long_raw, short |-> kind.short,
   pos |-> i]

MessageLists ==
  UNION {{[i \in 1..n |-> MessageAt(kinds[i], i)] :
            kinds \in [1..n -> MessageKinds]} : n \in 0..MaxMsgs}

\* ContextManager._count_message_tokens: only a string content is counted;
\* a message counts as one token at least.
_count_message_tokens(message) ==
  IF message.form = "str" /\ message.text > 1 THEN message.text ELSE 1

RECURSIVE CountTokensFrom(_, _)
CountTokensFrom(messages, i) ==
  IF i > Len(messages) THEN 0
  ELSE _count_message_tokens(messages[i]) + CountTokensFrom(messages, i + 1)

count_tokens(messages) == CountTokensFrom(messages, 1)

is_over_limit(messages, token_limit) == count_tokens(messages) > token_limit

\* Step 1 of _compress_messages for one message: the raw_content of a
\* web_search ToolMessage is truncated and the content written back as JSON
\* text.
CompressRawContent(msg) ==
  IF msg.type = "tool" /\ msg.name = "web_search" /\ msg.long_raw
  THEN [msg EXCEPT !.form = "str", !.text = msg.short, !.long_raw = FALSE]
  ELSE msg

Step1(messages) ==
  [i \in 1..Len(messages) |-> CompressRawContent(messages[i])]

\* The loop of step 2 from the i-th remaining message downwards:
\* result_messages and preserved_messages are one list, so the insertion at
\* len(preserved_messages) puts msg at the end of it.
RECURSIVE InsertRecent(_, _, _, _)
InsertRecent(result_messages, remaining_messages, i, token_limit) ==
  IF i < 1 THEN result_messages
  ELSE LET inserted == Append(result_messages, remaining_messages[i]) IN
       IF ~is_over_limit(inserted, token_limit) THEN inserted
       ELSE InsertRecent(inserted, remaining_messages, i - 1, token_limit)

\* Step 2 keeps no prefix when the budget is exceeded.
Step2_DropPrefix(compressed, token_limit, preserved_count) ==
  InsertRecent(<< >>, compressed, Len(compressed), token_limit)

\* Step 2 of _compress_messages.
Step2(compressed, token_limit, preserved_count) ==
  LET n == Len(compressed)
      k == IF preserved_count < n THEN preserved_count ELSE n
      preserved_messages == SubSeq(compressed, 1, k)
      remaining_messages == SubSeq(compressed, k + 1, n)
  IN  InsertRecent(preserved_messages, remaining_messages,
                   Len(remaining_messages), token_limit)

_compress_messages(messages, token_limit, preserved_count) ==
  LET compressed == Step1(messages) IN
  IF is_over_limit(compressed, token_limit)
  THEN Step2(compressed, token_limit, preserved_count)
  ELSE compressed

compress_messages(messages, token_limit, preserved_count) ==
  IF ~is_over_limit(messages, token_limit) THEN messages
  ELSE _compress_messages(messages, token_limit, preserved_count)

(* ---------------------------------------------------------------------- *)
(* Run state                                                               *)
(* ---------------------------------------------------------------------- *)
VARIABLES
  cfg,        \* run parameters: initial-state flags and Configuration fields
  state,      \* channel values committed by the previous superstep
  w,          \* channel values with the pending writes of this superstep
  wkeys,      \* plain keys written so far in this superstep
  conflict,   \* a plain key has been written twice in this superstep
  active,     \* nodes of this superstep that have not run yet
  nextNodes,  \* nodes scheduled so far for the next superstep
  status,     \* "running", "done" or "raised" (error raised to the caller)
  cmd,        \* what the node that ran last returned
  tool,       \* the intercepted tool call in progress
  coll,       \* a CitationCollector and the record of what was added to it
  fn,         \* the call of a function considered on its own: its
              \* arguments and what it returned
  hist        \* history: hand-off, decomposition model calls, whether the
              \* first call's output was unparsable or no valid plan, and
              \* whether the decomposer returned a plan with enough context

vars ==
  << cfg, state, w, wkeys, conflict, active, nextNodes, status, cmd, hist,
     tool, coll, fn >>

Configs ==
  [auto_accepted_questions : BOOLEAN,
   enable_background_investigation : BOOLEAN,
   enable_recursion_fallback : BOOLEAN,
   enforce_web_search : {TRUE},
   enable_web_search : BOOLEAN,
   max_decompose_interations : 0..MaxIterBound]

\* Initial channel values: runflow's initial_state sets the locale and the
\* two topic fields, and no plan, counter, answers or report.
InitMeta ==
  [k \in MetaKeys |->
     IF k \in {"locale", "research_topic", "clarified_research_topic"}
     THEN "v" ELSE "absent"]

InitState ==
  [son_questions |-> NoPlan,
   decompose_iterations |-> 0,
   answers |-> << >>,
   final_report |-> "none",
   meta |-> InitMeta]

NoCmd == [node |-> "none", goto |-> "none", keys |-> {}, event |-> "none"]

\* The tool interceptor before any call: interrupt_before_tools is the
\* list of the configuration.
ToolNames == {"web_search", "crawl_tool", "python_repl_tool"}

IdleTool(interrupt_before_tools) ==
  [interrupt_before_tools |-> interrupt_before_tools, phase |-> "idle",
   name |-> "none", feedback |-> NoFeedback, interrupted |-> FALSE,
   called |-> FALSE, result |-> "none"]

\* A fresh collector; adds_only says whether only adding operations
\* (search results, crawl results, merges) have been applied to it, and ever
\* records the URLs added as long as that is so.
FreshCollector ==
  [c |-> EmptyCollector, ever |-> {}, adds_only |-> TRUE]

\* No function call is under consideration.
NoCall == [op |-> "none"]

Init ==
  /\ cfg \in Configs
  /\ tool = IdleTool({})
  /\ coll = FreshCollector
  /\ fn = NoCall
  /\ state = InitState
  /\ w = InitState
  /\ wkeys = {}
  /\ conflict = FALSE
  /\ active = {"coordinator"}
  /\ nextNodes = {}
  /\ status = "running"
  /\ cmd = NoCmd
  /\ hist = [handoff |-> FALSE, attempts |-> 0, firstAttemptFailed |-> FALSE,
             finalized |-> FALSE]

(* ---------------------------------------------------------------------- *)
(* Graph wiring and superstep scheduling                                   *)
(* ---------------------------------------------------------------------- *)
\* Edges registered by _build_base_graph; the edge out of research_team is
\* the conditional one.
Edges(n, st) ==
  CASE n = "background_investigator" -> {"decomposer"}
    [] n = "decomposer" -> {"human_feedback"}
    [] n = "human_feedback" -> {"research_team"}
    [] n = "research_team" ->
         {continue_to_running_research_team(st.son_questions)}
    [] n \in Workers -> {"research_team"}
    [] n = "reporter" -> {END}
    [] OTHER -> {}

\* A Command's goto adds its target to the registered edges.
Dests(n, goto, st) == ({goto} \cup Edges(n, st)) \ {END, "none"}

\* Node n returns Command(update, goto): keys are the keys of the update,
\* newW the pending writes with the update applied, newState the channel
\* values after the node's in-place mutations.
Return(n, goto, keys, event, newW, newState) ==
  LET dests == Dests(n, goto, state)
      stored == (keys \cap StateKeys) \ ReducerKeys
      clash == conflict \/ (stored \cap wkeys # {})
      rest == active \ {n}
      sched == nextNodes \cup dests
  IN  /\ cmd' = [node |-> n, goto |-> goto, keys |-> keys, event |-> event]
      /\ IF rest # {}
         THEN /\ active' = rest
              /\ nextNodes' = sched
              /\ w' = newW
              /\ wkeys' = wkeys \cup stored
              /\ conflict' = clash
              /\ state' = newState
              /\ status' = "running"
         ELSE /\ nextNodes' = {}
              /\ wkeys' = {}
              /\ conflict' = FALSE
              /\ IF clash
                 THEN /\ status' = "raised"
                      /\ active' = {}
                      /\ state' = newState
                      /\ w' = newState
                 ELSE /\ status' = IF sched = {} THEN "done" ELSE "running"
                      /\ active' = sched
                      /\ state' = newW
                      /\ w' = newW

\* Node n raises: the error leaves the graph and the run stops.
Raise(n, event) ==
  /\ cmd' = [node |-> n, goto |-> "raise", keys |-> {}, event |-> event]
  /\ status' = "raised"
  /\ active' = {}
  /\ nextNodes' = {}
  /\ wkeys' = {}
  /\ conflict' = FALSE
  /\ UNCHANGED state
  /\ w' = state

Runs(n) == status = "running" /\ n \in active

\* The pending writes nw with the update of preserve_state_meta_fields(state).
Preserved(nw) == [nw EXCEPT !.meta = preserve_state_meta_fields(state)]

(* ---------------------------------------------------------------------- *)
(* coordinator, background_investigator                                    *)
(* ---------------------------------------------------------------------- *)
CoordinatorKeys ==
  {"messages", "locale", "research_topic", "clarified_research_topic",
   "resources", "goto", "citations"}

\* The meta fields the coordinator assigns: the locale and the topic as
\* read from the state (the topic of the hand-off call when it names one),
\* the clarified topic, and the resources of the configuration (none by
\* default).  topic_arg is the research_topic argument of the tool call.
CoordinatorMeta(handoff, topic_arg) ==
  LET initial_topic == MetaGet(state, "research_topic")
      research_topic == IF handoff /\ topic_arg # "" THEN topic_arg
                        ELSE initial_topic
      clarified == IF initial_topic # "default" THEN initial_topic
                   ELSE research_topic
  IN  [w.meta EXCEPT !["locale"] = MetaGet(state, "locale"),
                     !["research_topic"] = research_topic,
                     !["clarified_research_topic"] = clarified,
                     !["resources"] = "default"]

coordinator_node ==
  /\ Runs("coordinator")
  /\ \E tool_name \in {"handoff_to_question_decomposer", "direct_response",
                       "none"},
        topic_arg \in {"", "v"} :
       LET handoff == tool_name = "handoff_to_question_decomposer"
           goto == IF ~handoff THEN END
                   ELSE IF cfg.enable_background_investigation
                        THEN "background_investigator"
                   ELSE "decomposer"
       IN  /\ Return("coordinator", goto, CoordinatorKeys, tool_name,
                     [w EXCEPT !.meta = CoordinatorMeta(handoff, topic_arg)],
                     state)
           /\ hist' = [hist EXCEPT !.handoff = handoff]
  /\ UNCHANGED << cfg, tool, coll, fn >>

background_investigation_node ==
  /\ Runs("background_investigator")
  /\ Return("background_investigator", "none",
            {"background_investigation_results"}, "none", w, state)
  /\ UNCHANGED << cfg, hist, tool, coll, fn >>

(* ---------------------------------------------------------------------- *)
(* question_decomposer                                                     *)
(* ---------------------------------------------------------------------- *)
\* What the decomposition model may answer.  kind is "noJson" for text that
\* does not start with a brace or bracket after repair, "badJson" for text
\* json.loads rejects, "nonDict" for JSON that is no object, and "dict" for
\* a JSON object with its sub-questions; fields_ok says whether the fields
\* the plan model requires (other than step_type) are all there; locale is
\* the locale string of the object, empty in some of the short outputs.
RawQuestions ==
  {[step_type |-> "research", need_search |-> TRUE],
   [step_type |-> "analysis", need_search |-> FALSE],
   [step_type |-> "processing", need_search |-> FALSE],
   [step_type |-> "", need_search |-> TRUE],
   [step_type |-> "", need_search |-> FALSE],
   [step_type |-> "bogus", need_search |-> FALSE]}

RawPlans == UNION {[1..n -> RawQuestions] : n \in 0..MaxQ}

MkQuestions(raw) ==
  [i \in 1..Len(raw) |-> SubQuestion(i, raw[i].step_type, raw[i].need_search)]

\* Outputs with a missing field, a missing or unknown step_type or no
\* locale are drawn with at most one sub-question: a longer list of them is
\* repaired or rejected entry by entry in the same way.
ShortPlans == {raw \in RawPlans : Len(raw) <= 1}

TypedPlans ==
  {raw \in RawPlans : \A i \in 1..Len(raw) : raw[i].step_type \in TaskType}

DecomposerOutputs ==
  [kind : {"noJson", "badJson", "nonDict"}, fields_ok : {TRUE},
   hec : {FALSE}, qs : {<< >>}, locale : {""}]
  \cup [kind : {"dict"}, fields_ok : {TRUE}, hec : BOOLEAN,
         qs : ShortPlans \cup TypedPlans, locale : {"p"}]
  \cup [kind : {"dict"}, fields_ok : {FALSE}, hec : BOOLEAN,
         qs : ShortPlans, locale : {"p"}]
  \cup [kind : {"dict"}, fields_ok : {TRUE}, hec : BOOLEAN,
         qs : ShortPlans, locale : {""}]

AllResolved(sq) ==
  ~NoQuestions(sq) /\ \A i \in 1..Len(sq.qs) : IsSet(sq.qs[i].execution_res)

\* The routing of both parse-failure branches of the decomposer.
DecomposerParseFailGoto(decompose_iterations) ==
  IF decompose_iterations > 0 THEN "reporter" ELSE END

question_decomposer_node ==
  /\ Runs("decomposer")
  /\ UNCHANGED << cfg, tool, coll, fn >>
  /\ LET existing == state.son_questions
         iterations == state.decompose_iterations
     IN
     IF AllResolved(existing)
     THEN /\ Return("decomposer", "reporter", MetaKeys \cup {"son_questions"},
                    "all_resolved",
                    Preserved([w EXCEPT !.son_questions = existing]), state)
          /\ UNCHANGED hist
     ELSE IF iterations >= cfg.max_decompose_interations
     THEN /\ Return("decomposer", "reporter", MetaKeys, "max_iterations",
                    Preserved(w), state)
          /\ UNCHANGED hist
     ELSE \E out \in DecomposerOutputs :
       LET unparsable == out.kind \in {"noJson", "badJson"}
           fixed == validate_and_fix_subquestions(
                      MkQuestions(out.qs), cfg.enforce_web_search,
                      cfg.enable_web_search)
           plan == [present |-> TRUE, hec |-> out.hec, qs |-> fixed,
                    locale |-> out.locale]
           invalid == out.kind = "nonDict" \/ ~ModelValid(out.fields_ok, fixed)
           planKeys == MetaKeys \cup {"messages", "son_questions"}
       IN
       /\ hist' = [hist EXCEPT
                     !.attempts = @ + 1,
                     !.firstAttemptFailed =
                        @ \/ (hist.attempts = 0 /\ (unparsable \/ invalid)),
                     !.finalized =
                        @ \/ (~unparsable /\ ~invalid /\ out.hec)]
       /\ IF unparsable
          THEN Return("decomposer", DecomposerParseFailGoto(iterations),
                      MetaKeys, "parse_fail", Preserved(w), state)
          ELSE IF invalid
          THEN Raise("decomposer", "validation_error")
          ELSE IF out.hec
          THEN Return("decomposer", "reporter", planKeys, "enough_context",
                      Preserved([w EXCEPT !.son_questions = plan]), state)
          ELSE Return("decomposer", "human_feedback", planKeys, "plan",
                      Preserved([w EXCEPT !.son_questions = plan]), state)

(* ---------------------------------------------------------------------- *)
(* human_feedback                                                          *)
(* ---------------------------------------------------------------------- *)
\* The routing of the parse-failure branch of human_feedback.
FeedbackParseFailGoto(decompose_iterations) ==
  IF decompose_iterations > 1 THEN "reporter" ELSE END

\* How the node came to accept the plan: "auto" without an interrupt,
\* "keyword" on feedback that contains an approval keyword, "other" on any
\* other feedback; the event of the visit records it.
AcceptedEvent(via) ==
  CASE via = "auto" -> "accepted"
    [] via = "keyword" -> "accepted_keyword"
    [] OTHER -> "accepted_other"

ParseFailEvent(via) ==
  CASE via = "auto" -> "parse_fail"
    [] via = "keyword" -> "parse_fail_keyword"
    [] OTHER -> "parse_fail_other"

\* The accepted plan is written back without the counter being incremented.
AcceptPlan_NoIncrement(via) ==
  LET sq == state.son_questions
      fixed == validate_and_fix_subquestions(
                 sq.qs, cfg.enforce_web_search, cfg.enable_web_search)
      kept == preserve_state_meta_fields(state)
      meta == IF sq.locale # "" THEN [kept EXCEPT !["locale"] = sq.locale]
              ELSE kept
  IN
  IF ~sq.present
  THEN Return("human_feedback",
              FeedbackParseFailGoto(state.decompose_iterations), MetaKeys,
              ParseFailEvent(via), Preserved(w), state)
  ELSE Return("human_feedback", "research_team",
              MetaKeys \cup {"son_questions", "decompose_iterations"},
              AcceptedEvent(via),
              [w EXCEPT !.son_questions = [sq EXCEPT !.qs = fixed],
                        !.meta = meta],
              state)

\* The plan is accepted: it is dumped, parsed again and validated; the
\* locale of the plan, when it names one, becomes the locale of the state.
AcceptPlan(via) ==
  LET sq == state.son_questions
      iterations == state.decompose_iterations
      fixed == validate_and_fix_subquestions(
                 sq.qs, cfg.enforce_web_search, cfg.enable_web_search)
      kept == preserve_state_meta_fields(state)
      meta == IF sq.locale # "" THEN [kept EXCEPT !["locale"] = sq.locale]
              ELSE kept
  IN
  IF ~sq.present
  THEN Return("human_feedback", FeedbackParseFailGoto(iterations), MetaKeys,
              ParseFailEvent(via), Preserved(w), state)
  ELSE Return("human_feedback", "research_team",
              MetaKeys \cup {"son_questions", "decompose_iterations"},
              AcceptedEvent(via),
              [w EXCEPT !.son_questions = [sq EXCEPT !.qs = fixed],
                        !.decompose_iterations = iterations + 1,
                        !.meta = meta],
              state)

human_feedback_node ==
  /\ Runs("human_feedback")
  /\ UNCHANGED << cfg, hist, tool, coll, fn >>
  /\ IF cfg.auto_accepted_questions
     THEN AcceptPlan("auto")
     ELSE \E feedback \in Feedbacks :
            IF Falsy(feedback)
            THEN Return("human_feedback", "decomposer", MetaKeys,
                        "empty_feedback", Preserved(w), state)
            ELSE IF StartsWithEditPlan(feedback)
            THEN Return("human_feedback", "decomposer",
                        MetaKeys \cup {"messages"}, "edit_plan",
                        Preserved(w), state)
            ELSE AcceptPlan(IF _parse_approval(feedback) THEN "keyword"
                            ELSE "other")

(* ---------------------------------------------------------------------- *)
(* research_team                                                           *)
(* ---------------------------------------------------------------------- *)
research_team_node ==
  /\ Runs("research_team")
  /\ UNCHANGED << cfg, hist, tool, coll, fn >>
  /\ Return("research_team", research_team_goto(state.son_questions),
            MetaKeys, "none", Preserved(w), state)

(* ---------------------------------------------------------------------- *)
(* researcher, analyst, coder: _execute_agent_step                         *)
(* ---------------------------------------------------------------------- *)
\* Configuration.enforce_researcher_search (default).
enforce_researcher_search == TRUE

\* What the worker agent may do.  kind: "done" (the stream ends), "exc" (an
\* exception other than the recursion-limit error) or "reclimit"
\* (GraphRecursionError); msgs: whether any message was accumulated;
\* content: the content of the last message, or of the fallback model's
\* answer; used_search: whether the transcript shows a web_search call;
\* fb_fails: whether the fallback model call raises.
Contents == {"text", "blank", "empty"}

WorkerOutcomes ==
  {o \in [kind : {"done", "exc", "reclimit"}, msgs : {0, 1},
          content : Contents, used_search : BOOLEAN, fb_fails : BOOLEAN] :
     /\ o.kind = "exc" => o.msgs = 0
     /\ o.kind = "done" => ~o.fb_fails
     /\ o.msgs = 0 => o.content = "empty" /\ ~o.used_search /\ ~o.fb_fails
     /\ o.fb_fails => o.content = "empty" /\ ~o.used_search}

\* sanitize_tool_response on the content classes: stripping leaves nothing
\* of blank content.
sanitize_tool_response(content) ==
  IF content = "text" THEN "text" ELSE "empty"

\* How the try statement around the agent stream leaves: "success" when a
\* result with messages is available, "error" when the handler of
\* `except Exception` runs, "raise" when an exception leaves the function.
\* A `raise` inside the GraphRecursionError handler is not caught by the
\* sibling handler; an empty message list fails at response_messages[-1].
StepExit(o, enable_recursion_fallback) ==
  CASE o.kind = "exc" -> "error"
    [] o.kind = "done" -> IF o.msgs = 0 THEN "raise" ELSE "success"
    [] o.kind = "reclimit" ->
         IF ~enable_recursion_fallback THEN "raise"
         ELSE IF o.msgs = 0 THEN "raise"
         ELSE IF o.fb_fails THEN "raise"
         ELSE "success"

ErrorKeys == MetaKeys \cup {"messages", "answers"}

SuccessKeys == MetaKeys \cup {"messages", "answers", "citations"}

\* The event recorded for a worker outcome.
StepEvent(o) ==
  IF o.kind = "reclimit"
  THEN IF o.fb_fails THEN "reclimit_fb_fails"
       ELSE IF o.msgs = 0 THEN "reclimit_no_messages"
       ELSE "reclimit"
  ELSE IF o.kind = "done" /\ o.msgs = 0 THEN "done_no_messages"
  ELSE o.kind

\* A worker that fails leaves the sub-question without a result.
StepResult_NoErrorStored(exit, agent_name, question, content) ==
  IF exit = "error" THEN Null
  ELSE Res(sanitize_tool_response(content), "none", 0)

\* The execution_res the step stores: the error block naming the agent and
\* the question, or the sanitized content of the last message.
StepResult(exit, agent_name, question, content) ==
  IF exit = "error" THEN Res("error", agent_name, question)
  ELSE Res(sanitize_tool_response(content), "none", 0)

\* The plan object with sub-question i mutated in place.
SetRes(st, i, res) ==
  [st EXCEPT !.son_questions.qs[i].execution_res = res]

_execute_agent_step(agent_name) ==
  /\ Runs(agent_name)
  /\ Len(state.answers) < MaxAnswers
  /\ UNCHANGED << cfg, hist, tool, coll, fn >>
  /\ LET sq == state.son_questions
         i == FirstUnexecuted(sq.qs)
     IN
     IF NoQuestions(sq) \/ i = 0
     THEN Return(agent_name, "research_team", MetaKeys, "no_step",
                 Preserved(w), state)
     ELSE \E o \in WorkerOutcomes :
       LET exit == StepExit(o, cfg.enable_recursion_fallback)
           question == sq.qs[i].id
           res == StepResult(exit, agent_name, question, o.content)
           warned == /\ exit = "success"
                     /\ agent_name = "researcher"
                     /\ enforce_researcher_search
                     /\ cfg.enable_web_search
                     /\ ~o.used_search
           record == [question |-> question, answer |-> res,
                      warned |-> warned, agent |-> agent_name]
           newState == SetRes(state, i, res)
           pending == IF w.son_questions = state.son_questions
                      THEN SetRes(w, i, res) ELSE w
           newW == Preserved(
                     [pending EXCEPT !.answers = Append(state.answers, record)])
       IN
       IF exit = "raise"
       THEN Raise(agent_name, StepEvent(o))
       ELSE Return(agent_name, "research_team",
                   IF exit = "error" THEN ErrorKeys ELSE SuccessKeys,
                   StepEvent(o), newW, newState)

researcher_node == _execute_agent_step("researcher")

analyst_node == _execute_agent_step("analyst")

coder_node == _execute_agent_step("coder")

(* ---------------------------------------------------------------------- *)
(* reporter                                                                *)
(* ---------------------------------------------------------------------- *)
reporter_node ==
  /\ Runs("reporter")
  /\ UNCHANGED << cfg, hist, tool, coll, fn >>
  /\ IF state.final_report = "text"
     THEN Return("reporter", END, {}, "skip", w, state)
     ELSE \E content \in {"text", "empty"} :
            Return("reporter", END,
                   {"messages", "final_report", "report_path"}, "report",
                   [w EXCEPT !.final_report = content], state)

(* ---------------------------------------------------------------------- *)
(* Specification                                                           *)
(* ---------------------------------------------------------------------- *)
Next ==
  \/ coordinator_node
  \/ background_investigation_node
  \/ question_decomposer_node
  \/ human_feedback_node
  \/ research_team_node
  \/ researcher_node
  \/ analyst_node
  \/ coder_node
  \/ reporter_node

Spec == Init /\ [][Next]_vars

(* ---------------------------------------------------------------------- *)
(* Dispatcher routing over arbitrary plans                                 *)
(* ---------------------------------------------------------------------- *)
\* Plans as a caller may put them into the state, step types outside the
\* enum and every kind of execution_res included.
DispatchQuestions ==
  [id : {1}, step_type : TaskType \cup {"bogus"}, need_search : {FALSE},
   execution_res : {Null, Res("text", "none", 0), Res("empty", "none", 0)}]

DispatchPlans ==
  {NoPlan} \cup
  {[present |-> TRUE, hec |-> FALSE, qs |-> qs, locale |-> "p"] :
     qs \in UNION {[1..n -> DispatchQuestions] : n \in 0..MaxQ}}

InitDispatch ==
  /\ cfg \in Configs
  /\ \E sq \in DispatchPlans :
       /\ state = [InitState EXCEPT !.son_questions = sq]
       /\ w = state
  /\ wkeys = {}
  /\ conflict = FALSE
  /\ active = {"research_team"}
  /\ nextNodes = {}
  /\ status = "running"
  /\ cmd = NoCmd
  /\ hist = [handoff |-> TRUE, attempts |-> 0, firstAttemptFailed |-> FALSE,
             finalized |-> FALSE]
  /\ tool = IdleTool({})
  /\ coll = FreshCollector
  /\ fn = NoCall

NextDispatch == research_team_node

SpecDispatch == InitDispatch /\ [][NextDispatch]_vars

(* ---------------------------------------------------------------------- *)
(* The loop research_team -> worker -> research_team                       *)
(* ---------------------------------------------------------------------- *)
\* Accepted plans none of whose sub-questions has been executed.
LoopPlans ==
  {[present |-> TRUE, hec |-> FALSE, locale |-> "p",
    qs |-> [i \in 1..Len(types) |->
              SubQuestion(i, types[i], types[i] = "research")]] :
     types \in UNION {[1..n -> TaskType] : n \in 1..MaxQ}}

InitLoop ==
  /\ cfg \in {c \in Configs :
               /\ c.auto_accepted_questions
               /\ c.enable_background_investigation
               /\ c.max_decompose_interations = 1}
  /\ \E sq \in LoopPlans :
       /\ state = [InitState EXCEPT !.son_questions = sq,
                                    !.decompose_iterations = 1]
       /\ w = state
  /\ wkeys = {}
  /\ conflict = FALSE
  /\ active = {"research_team"}
  /\ nextNodes = {}
  /\ status = "running"
  /\ cmd = NoCmd
  /\ hist = [handoff |-> TRUE, attempts |-> 1, firstAttemptFailed |-> FALSE,
             finalized |-> FALSE]
  /\ tool = IdleTool({})
  /\ coll = FreshCollector
  /\ fn = NoCall

NextLoop ==
  \/ research_team_node
  \/ researcher_node
  \/ analyst_node
  \/ coder_node
  \/ reporter_node

SpecLoop == InitLoop /\ [][NextLoop]_vars

(* ---------------------------------------------------------------------- *)
(* The decomposer over arbitrary incoming states                           *)
(* ---------------------------------------------------------------------- *)
\* The run parameters runflow and Configuration use by default.
DefaultConfig ==
  [auto_accepted_questions |-> TRUE,
   enable_background_investigation |-> TRUE,
   enable_recursion_fallback |-> TRUE,
   enforce_web_search |-> TRUE,
   enable_web_search |-> TRUE,
   max_decompose_interations |-> 1]

\* Plans already in the state when the decomposer is entered.
ExistingQuestions ==
  [id : {1}, step_type : {"research"}, need_search : {TRUE},
   execution_res : {Null, Res("text", "none", 0), Res("empty", "none", 0)}]

ExistingPlans ==
  {NoPlan} \cup
  {[present |-> TRUE, hec |-> FALSE, qs |-> qs, locale |-> "p"] :
     qs \in UNION {[1..n -> ExistingQuestions] : n \in 0..MaxQ}}

InitDecompose ==
  /\ cfg \in {c \in Configs :
               /\ c.auto_accepted_questions
               /\ c.enable_background_investigation
               /\ c.enable_recursion_fallback}
  /\ \E sq \in ExistingPlans, n \in 0..(MaxIterBound + 1) :
       /\ state = [InitState EXCEPT !.son_questions = sq,
                                    !.decompose_iterations = n]
       /\ w = state
  /\ wkeys = {}
  /\ conflict = FALSE
  /\ active = {"decomposer"}
  /\ nextNodes = {}
  /\ status = "running"
  /\ cmd = NoCmd
  /\ hist = [handoff |-> TRUE, attempts |-> 0, firstAttemptFailed |-> FALSE,
             finalized |-> FALSE]
  /\ tool = IdleTool({})
  /\ coll = FreshCollector
  /\ fn = NoCall

NextDecompose == question_decomposer_node

SpecDecompose == InitDecompose /\ [][NextDecompose]_vars

(* ---------------------------------------------------------------------- *)
(* Tool interception                                                       *)
(* ---------------------------------------------------------------------- *)
\* The workflow variables stay as they are while a tool call or a collector
\* operation is considered on its own.
RunIdle ==
  UNCHANGED << cfg, state, w, wkeys, conflict, active, nextNodes, status,
               cmd, hist >>

InitIdle ==
  /\ cfg = DefaultConfig
  /\ state = InitState
  /\ w = InitState
  /\ wkeys = {}
  /\ conflict = FALSE
  /\ active = {"coordinator"}
  /\ nextNodes = {}
  /\ status = "running"
  /\ cmd = NoCmd
  /\ hist = [handoff |-> FALSE, attempts |-> 0, firstAttemptFailed |-> FALSE,
             finalized |-> FALSE]

\* ToolInterceptor.should_interrupt
should_interrupt(tool_name, interrupt_before_tools) ==
  tool_name \in interrupt_before_tools

\* The call of the original function at the end of intercepted_func: it
\* returns its result or raises.
CallOriginal(ok) ==
  [tool EXCEPT !.called = TRUE,
               !.phase = IF ok THEN "returned" ELSE "raised",
               !.result = IF ok THEN "result" ELSE "none"]

\* intercepted_func up to the interrupt: a tool marked for interruption
\* suspends the call, any other tool runs.
intercepted_func ==
  /\ tool.phase # "interrupted"
  /\ \E tool_name \in ToolNames, ok \in BOOLEAN :
       LET call == [IdleTool(tool.interrupt_before_tools) EXCEPT
                      !.name = tool_name]
       IN
       IF should_interrupt(tool_name, tool.interrupt_before_tools)
       THEN tool' = [call EXCEPT !.phase = "interrupted",
                                 !.interrupted = TRUE]
       ELSE tool' = [call EXCEPT !.called = TRUE,
                                 !.phase = IF ok THEN "returned" ELSE "raised",
                                 !.result = IF ok THEN "result" ELSE "none"]
  /\ UNCHANGED << coll, fn >>
  /\ RunIdle

\* intercepted_func from the interrupt on: the interrupt raises an error, or
\* it returns the feedback, which decides between the rejection object and
\* the call of the original function.
intercepted_func_resume ==
  /\ tool.phase = "interrupted"
  /\ \/ tool' = [tool EXCEPT !.phase = "raised"]
     \/ \E feedback \in Feedbacks, ok \in BOOLEAN :
          IF ~_parse_approval(feedback)
          THEN tool' = [tool EXCEPT !.feedback = feedback,
                                    !.phase = "returned",
                                    !.result = "rejected"]
          ELSE tool' = [CallOriginal(ok) EXCEPT !.feedback = feedback]
  /\ UNCHANGED << coll, fn >>
  /\ RunIdle

InitTool ==
  /\ InitIdle
  /\ \E interrupt_before_tools \in SUBSET ToolNames :
       tool = IdleTool(interrupt_before_tools)
  /\ coll = FreshCollector
  /\ fn = NoCall

NextTool ==
  \/ intercepted_func
  \/ intercepted_func_resume

SpecTool == InitTool /\ [][NextTool]_vars

(* ---------------------------------------------------------------------- *)
(* Operations on a CitationCollector                                       *)
(* ---------------------------------------------------------------------- *)
\* The URLs a search result list asks to add: those of the entries that
\* are no image and have a URL.
ResultUrls(results) ==
  {results[i].url : i \in {j \in 1..Len(results) :
                             /\ results[j].type # "image_url"
                             /\ results[j].url # ""}}

OrderUrls(c) == {c.order[i] : i \in 1..Len(c.order)}

\* The collectors merge_with is given: collectors filled from a search
\* result list, with the first URL marked used.
OtherCollectors ==
  {LET o == add_from_search_results(EmptyCollector, results) IN
   IF Len(o.order) > 0 THEN mark_used(o, o.order[1]) ELSE o :
     results \in ResultLists}

CollAddSearch ==
  /\ \E results \in ResultLists :
       coll' = [coll EXCEPT
                  !.c = add_from_search_results(coll.c, results),
                  !.ever = IF coll.adds_only THEN @ \cup ResultUrls(results)
                           ELSE {}]
  /\ UNCHANGED << tool, fn >>
  /\ RunIdle

CollAddCrawl ==
  /\ \E url \in Urls, title \in {"t"}, content \in BOOLEAN :
       coll' = [coll EXCEPT
                  !.c = add_from_crawl_result(coll.c, url, title, content),
                  !.ever = IF coll.adds_only THEN @ \cup {url} ELSE {}]
  /\ UNCHANGED << tool, fn >>
  /\ RunIdle

CollMarkUsed ==
  /\ \E url \in Urls :
       coll' = [coll EXCEPT !.c = mark_used(coll.c, url)]
  /\ UNCHANGED << tool, fn >>
  /\ RunIdle

CollMerge ==
  /\ \E other \in OtherCollectors :
       coll' = [coll EXCEPT !.c = merge_with(coll.c, other),
                            !.ever = IF coll.adds_only THEN @ \cup OrderUrls(other)
                                    ELSE {}]
  /\ UNCHANGED << tool, fn >>
  /\ RunIdle

CollClear ==
  /\ coll' = [c |-> clear, ever |-> {}, adds_only |-> FALSE]
  /\ UNCHANGED << tool, fn >>
  /\ RunIdle

CollFromDict ==
  /\ \E data \in DictData :
       coll' = [c |-> from_dict(data), ever |-> {}, adds_only |-> FALSE]
  /\ UNCHANGED << tool, fn >>
  /\ RunIdle

InitCitations ==
  /\ InitIdle
  /\ tool = IdleTool({})
  /\ coll = FreshCollector
  /\ fn = NoCall

NextCitations ==
  \/ CollAddSearch
  \/ CollAddCrawl
  \/ CollMarkUsed
  \/ CollMerge
  \/ CollClear
  \/ CollFromDict

SpecCitations == InitCitations /\ [][NextCitations]_vars

(* ---------------------------------------------------------------------- *)
(* merge_citations applied to a batch, and to the same batch again         *)
(* ---------------------------------------------------------------------- *)
\* The tool and the collector stay as they are.
AuxIdle == UNCHANGED << tool, coll >>

InitMerge ==
  /\ InitIdle
  /\ tool = IdleTool({})
  /\ coll = FreshCollector
  /\ \E existing \in CitationLists, new \in CitationLists :
       fn = [op |-> "merge_citations", existing |-> existing, new |-> new,
             calls |-> 0, merged |-> existing, before |-> existing]

\* merged = merge_citations(merged, new); before keeps the list the call
\* was given.
MergeCall ==
  /\ fn.calls < 2
  /\ fn' = [fn EXCEPT !.calls = @ + 1,
                      !.before = fn.merged,
                      !.merged = merge_citations(fn.merged, fn.new)]
  /\ AuxIdle
  /\ RunIdle

NextMerge == MergeCall

SpecMerge == InitMerge /\ [][NextMerge]_vars

(* ---------------------------------------------------------------------- *)
(* compress_messages on a message list                                     *)
(* ---------------------------------------------------------------------- *)
InitCompress ==
  /\ InitIdle
  /\ tool = IdleTool({})
  /\ coll = FreshCollector
  /\ \E messages \in MessageLists, token_limit \in 1..MaxLimit,
        preserved_count \in 0..MaxPrefix :
       fn = [op |-> "compress_messages", messages |-> messages,
             token_limit |-> token_limit,
             preserve_prefix_message_count |-> preserved_count,
             done |-> FALSE, step2 |-> FALSE, result |-> messages]

\* ContextManager.compress_messages on state["messages"]; step2 records
\* whether step 2 of _compress_messages ran.
CompressCall ==
  /\ ~fn.done
  /\ fn' = [fn EXCEPT
              !.done = TRUE,
              !.step2 = /\ is_over_limit(fn.messages, fn.token_limit)
                        /\ is_over_limit(Step1(fn.messages), fn.token_limit),
              !.result = compress_messages(fn.messages, fn.token_limit,
                                           fn.preserve_prefix_message_count)]
  /\ AuxIdle
  /\ RunIdle

NextCompress == CompressCall

SpecCompress == InitCompress /\ [][NextCompress]_vars

(* ---------------------------------------------------------------------- *)
(* validate_and_fix_subquestions on a plan dict, and on its own output     *)
(* ---------------------------------------------------------------------- *)
\* The entries of the question list of a parsed model output: those of
\* RawQuestions and an entry that is no dict.
PlanQuestions ==
  RawQuestions \cup {[step_type |-> NonDict, need_search |-> FALSE]}

PlanDicts ==
  {[hec_key |-> top[1], hec |-> top[2], title |-> text[1],
    thought |-> text[2], qs |-> MkQuestions(raw)] :
     top \in {<< FALSE, FALSE >>, << TRUE, FALSE >>, << TRUE, TRUE >>},
     text \in {<< "t", "th" >>, << "", "th" >>, << "", "" >>},
     raw \in UNION {[1..n -> PlanQuestions] : n \in 0..MaxQ}}

InitValidate ==
  /\ InitIdle
  /\ tool = IdleTool({})
  /\ coll = FreshCollector
  /\ \E plan \in PlanDicts, enforce_web_search \in BOOLEAN,
        enable_web_search \in BOOLEAN :
       fn = [op |-> "validate_and_fix_subquestions", subquestions |-> plan,
             enforce_web_search |-> enforce_web_search,
             enable_web_search |-> enable_web_search,
             calls |-> 0, fixed |-> plan, before |-> plan]

\* fixed = validate_and_fix_subquestions(fixed, ...); before keeps the dict
\* the call was given.
ValidateCall ==
  /\ fn.calls < 2
  /\ fn' = [fn EXCEPT
              !.calls = @ + 1,
              !.before = fn.fixed,
              !.fixed = ValidateAndFixDict(fn.fixed, fn.enforce_web_search,
                                           fn.enable_web_search)]
  /\ AuxIdle
  /\ RunIdle

NextValidate == ValidateCall

SpecValidate == InitValidate /\ [][NextValidate]_vars

(* ---------------------------------------------------------------------- *)
(* One call on a collector filled from search results                      *)
(* ---------------------------------------------------------------------- *)
\* Search results with and without title, content and raw_content.
RichResults ==
  {[type |-> "page", url |-> "a", score |-> 1, title |-> "t",
    content |-> TRUE, raw_content |-> FALSE],
   [type |-> "page", url |-> "a", score |-> 0, title |-> "Untitled",
    content |-> FALSE, raw_content |-> FALSE],
   [type |-> "page", url |-> "b", score |-> 1, title |-> "",
    content |-> FALSE, raw_content |-> TRUE],
   [type |-> "page", url |-> "b", score |-> 0, title |-> "t",
    content |-> TRUE, raw_content |-> FALSE]}

\* Collectors filled by add_from_search_results, some of them with the
\* crawled content of "b" added, with no URL or the first URL marked used.
FilledCollectors ==
  {IF used /\ Len(c.order) > 0 THEN mark_used(c, c.order[1]) ELSE c :
     c \in {LET searched == add_from_search_results(EmptyCollector, results)
            IN  IF crawled
                THEN add_from_crawl_result(searched, "b", "Untitled", TRUE)
                ELSE searched :
              results \in UNION {[1..n -> RichResults] : n \in 0..MaxResults},
              crawled \in BOOLEAN},
     used \in BOOLEAN}

Call(op, before, other, url, title, content, after) ==
  [op |-> op, before |-> before, other |-> other, url |-> url,
   title |-> title, content |-> content, after |-> after]

InitCollectorCall ==
  /\ InitIdle
  /\ tool = IdleTool({})
  /\ \E c \in FilledCollectors :
       coll = [c |-> c, ever |-> {}, adds_only |-> FALSE]
  /\ fn = Call("none", EmptyCollector, EmptyCollector, "", "", FALSE,
               EmptyCollector)

\* self.merge_with(other)
MergeWithCall ==
  /\ fn.op = "none"
  /\ \E other \in OtherCollectors :
       LET after == merge_with(coll.c, other) IN
       /\ fn' = Call("merge_with", coll.c, other, "", "", FALSE, after)
       /\ coll' = [coll EXCEPT !.c = after]
  /\ UNCHANGED tool
  /\ RunIdle

\* CitationCollector.from_dict(self.to_dict())
RoundTripCall ==
  /\ fn.op = "none"
  /\ LET after == from_dict(to_dict(coll.c)) IN
     /\ fn' = Call("round_trip", coll.c, EmptyCollector, "", "", FALSE, after)
     /\ coll' = [coll EXCEPT !.c = after]
  /\ UNCHANGED tool
  /\ RunIdle

\* self.add_from_crawl_result(url, title, content)
CrawlCall ==
  /\ fn.op = "none"
  /\ \E url \in Urls \ {""}, title \in {"", "Untitled", "n"},
        content \in BOOLEAN :
       LET after == add_from_crawl_result(coll.c, url, title, content) IN
       /\ fn' = Call("add_from_crawl_result", coll.c, EmptyCollector, url,
                     title, content, after)
       /\ coll' = [coll EXCEPT !.c = after]
  /\ UNCHANGED tool
  /\ RunIdle

NextCollectorCall ==
  \/ MergeWithCall
  \/ RoundTripCall
  \/ CrawlCall

SpecCollectorCall == InitCollectorCall /\ [][NextCollectorCall]_vars

(* ---------------------------------------------------------------------- *)
(* One call of _execute_agent_step on a worker transcript                  *)
(* ---------------------------------------------------------------------- *)
\* The messages a worker stream may accumulate: type is the message type,
\* name the name attribute, content the class of the content, calls_search
\* whether tool_calls names web_search.
Message(type, name, content, calls_search) ==
  [type |-> type, name |-> name, content |-> content,
   calls_search |-> calls_search]

TranscriptMessages ==
  {Message("ai", "none", "text", FALSE),
   Message("ai", "none", "empty", TRUE),
   Message("tool", "web_search", "text", FALSE),
   Message("tool", "crawl_tool", "blank", FALSE),
   Message("system", "none", "text", FALSE)}

Transcripts == UNION {[1..n -> TranscriptMessages] : n \in 0..MaxTranscript}

\* The while loop that drops the system messages at the end of the copy.
RECURSIVE StripSystemTail(_)
StripSystemTail(messages) ==
  IF Len(messages) = 0 \/ messages[Len(messages)].type # "system"
  THEN messages
  ELSE StripSystemTail(SubSeq(messages, 1, Len(messages) - 1))

\* The fallback keeps the accumulated transcript as it is.
_handle_recursion_limit_fallback_KeepTail(messages, agent_name, fb) ==
  IF Len(messages) = 0
  THEN [raised |-> FALSE, messages |-> messages, calls |-> 0, res |-> Null]
  ELSE IF fb = "fails"
  THEN [raised |-> TRUE, messages |-> messages, calls |-> 1, res |-> Null]
  ELSE LET fallback_content == sanitize_tool_response(fb)
       IN [raised |-> FALSE,
           messages |-> Append(messages,
                               Message("ai", agent_name, fallback_content,
                                       FALSE)),
           calls |-> 1,
           res |-> Res(fallback_content, "none", 0)]

\* _handle_recursion_limit_fallback: fb is the content of the answer of the
\* model called without tools, or "fails" when that call raises; calls
\* counts the calls of the model, res is what current_step.execution_res
\* becomes (Null when the function leaves it alone).
_handle_recursion_limit_fallback(messages, agent_name, fb) ==
  IF Len(messages) = 0
  THEN [raised |-> FALSE, messages |-> messages, calls |-> 0, res |-> Null]
  ELSE IF fb = "fails"
  THEN [raised |-> TRUE, messages |-> messages, calls |-> 1, res |-> Null]
  ELSE LET cleared_messages == StripSystemTail(messages)
           fallback_content == sanitize_tool_response(fb)
       IN [raised |-> FALSE,
           messages |-> Append(cleared_messages,
                               Message("ai", agent_name, fallback_content,
                                       FALSE)),
           calls |-> 1,
           res |-> Res(fallback_content, "none", 0)]

validate_web_search_usage(messages) ==
  \E i \in 1..Len(messages) :
    \/ messages[i].type = "tool" /\ messages[i].name = "web_search"
    \/ messages[i].calls_search
    \/ messages[i].name = "web_search"

\* What a call leaves behind: how the try statement was left (exit), the
\* messages of the update, the number of model calls made besides the
\* worker's stream, the execution_res of the current sub-question, the
\* answer list of the update and the goto of the Command.
StepOut(exit, messages, model_calls, res, answers, goto) ==
  [exit |-> exit, messages |-> messages, model_calls |-> model_calls,
   execution_res |-> res, answers |-> answers, goto |-> goto]

NoStepOut == StepOut("none", << >>, 0, Null, << >>, "none")

\* _execute_agent_step from the stream of the worker to the Command, for a
\* sub-question with id `question` and an empty answer list; configurable
\* holds the two fields of the Configuration the function reads.
ExecuteAgentStep(agent_name, question, kind, messages, fb, configurable) ==
  LET enable_recursion_fallback == configurable.enable_recursion_fallback
      enable_web_search == configurable.enable_web_search
      h == _handle_recursion_limit_fallback(messages, agent_name, fb)
      raises == \/ kind = "reclimit" /\ ~enable_recursion_fallback
                \/ kind = "reclimit" /\ h.raised
      calls == IF kind = "reclimit" /\ enable_recursion_fallback
               THEN h.calls ELSE 0
      response_messages == IF kind = "reclimit" THEN h.messages ELSE messages
  IN
  IF kind = "exc"
  THEN LET res == Res("error", agent_name, question)
       IN StepOut("error", << Message("human", agent_name, "text", FALSE) >>,
                  0, res,
                  << [question |-> question, answer |-> res,
                      warned |-> FALSE, agent |-> agent_name] >>,
                  "research_team")
  ELSE IF raises
  THEN StepOut("raise", << >>, calls, Null, << >>, "raise")
  ELSE IF Len(response_messages) = 0
  THEN StepOut("raise", << >>, calls, Null, << >>, "raise")
  ELSE
    LET response_content ==
          sanitize_tool_response(
            response_messages[Len(response_messages)].content)
        warned == /\ agent_name = "researcher"
                  /\ enforce_researcher_search
                  /\ enable_web_search
                  /\ ~validate_web_search_usage(response_messages)
        res == Res(response_content, "none", 0)
    IN StepOut("success", response_messages, calls, res,
               << [question |-> question, answer |-> res,
                   warned |-> warned, agent |-> agent_name] >>,
               "research_team")

InitStep ==
  /\ InitIdle
  /\ tool = IdleTool({})
  /\ coll = FreshCollector
  /\ \E agent_name \in Workers, kind \in {"done", "exc", "reclimit"},
        messages \in Transcripts, fb \in Contents \cup {"fails"},
        fallback \in BOOLEAN, web \in BOOLEAN :
       /\ kind # "reclimit" => fb = "fails"
       /\ fn = [op |-> "_execute_agent_step", agent_name |-> agent_name,
                kind |-> kind, messages |-> messages, fb |-> fb,
                enable_recursion_fallback |-> fallback,
                enable_web_search |-> web,
                done |-> FALSE, out |-> NoStepOut]

StepCall ==
  /\ ~fn.done
  /\ fn' = [fn EXCEPT
              !.done = TRUE,
              !.out = ExecuteAgentStep(
                        fn.agent_name, 1, fn.kind, fn.messages, fn.fb,
                        [enable_recursion_fallback |->
                           fn.enable_recursion_fallback,
                         enable_web_search |-> fn.enable_web_search])]
  /\ AuxIdle
  /\ RunIdle

NextStep == StepCall

SpecStep == InitStep /\ [][NextStep]_vars

(* ---------------------------------------------------------------------- *)
(* The citation list over the node transitions of a run                    *)
(* ---------------------------------------------------------------------- *)
\* The value of a channel after a node's update {key: value} is applied:
\* an update key that is no key of the State schema is dropped.
ChannelAfter(key, value, old) == IF key \in StateKeys THEN value ELSE old

\* stored is what state.get("citations", []) returns, citations the list
\* the workflow last wrote under the key "citations", steps the number of
\* node transitions so far and last the kind of the latest one.
CiteFlow(stored, citations, steps, last) ==
  [op |-> "citations", stored |-> stored, citations |-> citations,
   steps |-> steps, last |-> last]

InitCiteFlow ==
  /\ InitIdle
  /\ tool = IdleTool({})
  /\ coll = FreshCollector
  /\ fn = CiteFlow(<< >>, << >>, 0, "none")

\* coordinator_node: the update carries state.get("citations", []).
CiteCoordinator ==
  /\ fn.steps = 0
  /\ LET value == fn.stored
     IN fn' = CiteFlow(ChannelAfter("citations", value, fn.stored), value, 1,
                       "coordinator")
  /\ AuxIdle
  /\ RunIdle

\* A step that succeeds: the citations extracted from the worker's messages
\* are merged into state.get("citations", []) and written back.
CiteStepSucceeds ==
  /\ fn.steps \in 1..(MaxSteps - 1)
  /\ \E new_citations \in CitationLists :
       LET merged_citations == merge_citations(fn.stored, new_citations)
       IN fn' = CiteFlow(ChannelAfter("citations", merged_citations,
                                      fn.stored),
                         merged_citations, fn.steps + 1, "success")
  /\ AuxIdle
  /\ RunIdle

\* A step that fails: the update has no citations key.
CiteStepFails ==
  /\ fn.steps \in 1..(MaxSteps - 1)
  /\ fn' = [fn EXCEPT !.steps = @ + 1, !.last = "error"]
  /\ AuxIdle
  /\ RunIdle

\* research_team_node and the other routing nodes: the update is that of
\* preserve_state_meta_fields.
CiteRouting ==
  /\ fn.steps \in 1..(MaxSteps - 1)
  /\ fn' = [fn EXCEPT !.steps = @ + 1, !.last = "routing"]
  /\ AuxIdle
  /\ RunIdle

NextCiteFlow ==
  \/ CiteCoordinator
  \/ CiteStepSucceeds
  \/ CiteStepFails
  \/ CiteRouting

SpecCiteFlow == InitCiteFlow /\ [][NextCiteFlow]_vars

(* ---------------------------------------------------------------------- *)
(* The routing of the coordinator over the tool calls of a response        *)
(* ---------------------------------------------------------------------- *)
\* The names a tool call of the coordinator's model response may carry:
\* the two tools bound to the model, the third tool the module defines and
\* a name of no tool.
ToolCallNames ==
  {"handoff_to_question_decomposer", "direct_response",
   "handoff_after_clarification", "other"}

ToolCallLists == UNION {[1..n -> ToolCallNames] : n \in 0..MaxCalls}

\* The loop over response.tool_calls from the i-th call on: the first call
\* of one of the two names the loop tests for decides and ends the loop.
RECURSIVE ProcessToolCalls(_, _)
ProcessToolCalls(tool_calls, i) ==
  IF i > Len(tool_calls) THEN END
  ELSE IF tool_calls[i] = "handoff_to_question_decomposer" THEN "decomposer"
  ELSE IF tool_calls[i] = "direct_response" THEN END
  ELSE ProcessToolCalls(tool_calls, i + 1)

\* The goto of the coordinator's Command.
CoordinatorGoto(tool_calls, enable_background_investigation) ==
  LET goto == ProcessToolCalls(tool_calls, 1) IN
  IF goto = "decomposer" /\ enable_background_investigation
  THEN "background_investigator"
  ELSE goto

InitCoordinator ==
  /\ InitIdle
  /\ tool = IdleTool({})
  /\ coll = FreshCollector
  /\ \E tool_calls \in ToolCallLists, background \in BOOLEAN :
       fn = [op |-> "coordinator_node", tool_calls |-> tool_calls,
             enable_background_investigation |-> background,
             done |-> FALSE, goto |-> "none"]

CoordinatorCall ==
  /\ ~fn.done
  /\ fn' = [fn EXCEPT
              !.done = TRUE,
              !.goto = CoordinatorGoto(fn.tool_calls,
                                       fn.enable_background_investigation)]
  /\ AuxIdle
  /\ RunIdle

NextCoordinator == CoordinatorCall

SpecCoordinator == InitCoordinator /\ [][NextCoordinator]_vars

(* ---------------------------------------------------------------------- *)
(* Properties                                                              *)
(* ---------------------------------------------------------------------- *)
\* The step in which node n runs.
Ran(n) == Runs(n) /\ cmd'.node = n /\ n \notin active'

Plan == state.son_questions

\* Index of the first sub-question whose execution_res is null, 0 if none.
RECURSIVE FirstNullFrom(_, _)
FirstNullFrom(qs, i) ==
  IF i > Len(qs) THEN 0
  ELSE IF qs[i].execution_res = Null THEN i
  ELSE FirstNullFrom(qs, i + 1)

FirstNull(qs) == FirstNullFrom(qs, 1)

\* C1: a sub-question is complete exactly when its execution_res is
\* non-null, so whenever an executor is scheduled the sub-question it
\* selects has a null execution_res: a sub-question whose execution_res was
\* set, to the empty string included, is never selected again.
C1_NeverSelectedAgain ==
  \A a \in Workers :
    Runs(a) =>
      LET i == FirstUnexecuted(Plan.qs) IN
      i # 0 => Plan.qs[i].execution_res = Null

\* C2: every executor visit returns goto = research_team, attempts exactly
\* one sub-question (the first without execution_res, appending its
\* answer record) and leaves every other sub-question as it was, whatever
\* the worker does: normal completion, an exception, a recursion-limit error
\* with the fallback enabled or disabled.  (Visits in which the worker
\* accumulated no message at all are left out here; they are the case of
\* C32.)
C2_VisitAttemptsOneAndReturns ==
  [][\A a \in Workers :
       (/\ Ran(a)
        /\ cmd'.event \notin {"done_no_messages", "reclimit_no_messages"}) =>
         LET i == FirstNull(Plan.qs) IN
         /\ cmd'.goto = "research_team"
         /\ i # 0
         /\ Len(state'.answers) = Len(state.answers) + 1
         /\ state'.answers[Len(state'.answers)].question = Plan.qs[i].id
         /\ \A j \in 1..Len(Plan.qs) :
              j # i => state'.son_questions.qs[j] = Plan.qs[j]]_vars

\* The last executor visit hit the recursion limit with the fallback
\* disabled, or with the fallback enabled and the fallback model failing.
RecursionLimitUnrecovered ==
  /\ cmd.node \in Workers
  /\ \/ cmd.event = "reclimit_fb_fails"
     \/ /\ cmd.event \in {"reclimit", "reclimit_no_messages"}
        /\ ~cfg.enable_recursion_fallback

\* C3: a recursion-limit error with the fallback disabled or failing takes
\* the standard failure path: the executor does not raise, the error block
\* is stored and logged as an answer of the agent, and the executor returns
\* to research_team.
C3_RecursionLimitTakesFailurePath ==
  RecursionLimitUnrecovered =>
    /\ status # "raised"
    /\ cmd.goto = "research_team"
    /\ Len(state.answers) > 0
    /\ LET last == state.answers[Len(state.answers)] IN
       /\ last.agent = cmd.node
       /\ last.answer.kind = "error"

\* C4: when the worker raises an exception other than the recursion-limit
\* error, the executor stores the error block naming the agent and the
\* question as that sub-question's execution_res, appends exactly one answer
\* record with the question, the error block and the agent, writes no
\* citations, leaves every other sub-question unchanged and returns to
\* research_team, which is the one node scheduled next.
C4_StandardFailurePath ==
  [][\A a \in Workers :
       (Ran(a) /\ cmd'.event = "exc") =>
         LET i == FirstUnexecuted(Plan.qs)
             block == Res("error", a, Plan.qs[i].id)
         IN
         /\ state'.son_questions.qs[i].execution_res = block
         /\ state'.answers =
              Append(state.answers,
                     [question |-> Plan.qs[i].id, answer |-> block,
                      warned |-> FALSE, agent |-> a])
         /\ "citations" \notin cmd'.keys
         /\ \A j \in 1..Len(Plan.qs) :
              j # i => state'.son_questions.qs[j] = Plan.qs[j]
         /\ Len(state'.son_questions.qs) = Len(Plan.qs)
         /\ cmd'.goto = "research_team"
         /\ status' = "running"
         /\ active' = {"research_team"}]_vars

\* C4 witness: a worker failed on the first of two sub-questions, the error
\* block is stored and the dispatcher is scheduled with the second
\* sub-question still to dispatch.
C4_Witness ==
  /\ cmd.node \in Workers
  /\ cmd.event = "exc"
  /\ active = {"research_team"}
  /\ Len(Plan.qs) = 2
  /\ Plan.qs[1].execution_res.kind = "error"
  /\ Plan.qs[2].execution_res = Null

\* The destination the dispatcher is specified to pick: the step_type of
\* the first sub-question without execution_res decides, an unknown type
\* goes to researcher, and reporter is picked when nothing is left.
SpecifiedRoute(sq) ==
  LET i == IF sq.present THEN FirstNull(sq.qs) ELSE 0 IN
  IF i = 0 THEN "reporter"
  ELSE IF sq.qs[i].step_type = "analysis" THEN "analyst"
  ELSE IF sq.qs[i].step_type = "processing" THEN "coder"
  ELSE "researcher"

\* C5: research_team routes by the step_type of the first sub-question
\* without execution_res, and to reporter when there is no plan, no
\* sub-question, or every sub-question has its execution_res set.
C5_DispatcherRouting ==
  [][Ran("research_team") => cmd'.goto = SpecifiedRoute(Plan)]_vars

\* C6: for every plan the Command of research_team_node and the conditional
\* edge function name the same node, which is researcher when the first
\* incomplete sub-question has an unknown step_type.
C6_NodeAndEdgeAgree ==
  [][Ran("research_team") =>
       LET i == FirstUnexecuted(Plan.qs) IN
       /\ cmd'.goto = continue_to_running_research_team(Plan)
       /\ (Plan.present /\ i # 0 /\ Plan.qs[i].step_type \notin TaskType)
            => cmd'.goto = "researcher"]_vars

\* C7: no superstep of a run schedules two nodes at once, in particular
\* never two executors.
C7_OneNodeAtATime ==
  /\ Cardinality(active) <= 1
  /\ Cardinality(nextNodes) <= 1

\* C8: a run handed off to research that has terminated has its
\* final_report set, unless the output of the first decomposition attempt
\* was rejected; no later failure ends the run without a report.
C8_TerminatedRunHasReport ==
  (hist.handoff /\ status \in {"done", "raised"} /\ ~hist.firstAttemptFailed)
    => state.final_report # "none"

\* C9: on unparsable model output the decomposer routes to reporter when
\* the attempt is not the first one of the run, and to end only when it is
\* the first.
C9_ParseFailureRouting ==
  (cmd.node = "decomposer" /\ cmd.event = "parse_fail") =>
    cmd.goto = IF hist.attempts > 1 THEN "reporter" ELSE END

\* C10: the decomposer and human_feedback always return a routing decision
\* and never raise, whatever the decomposition model answered.
C10_NoDecompositionErrorRaised ==
  cmd.node \in {"decomposer", "human_feedback"} =>
    cmd.goto \in {"human_feedback", "research_team", "reporter", END,
                  "decomposer"}

\* C11: when the decomposer produces a plan without has_enough_context it
\* routes to human_feedback, and the state it hands over carries that plan
\* and a decompose-iteration counter one greater than the one it received.
C11_DecomposerIncrementsCounter ==
  [][(Ran("decomposer") /\ cmd'.event = "plan") =>
       /\ cmd'.goto = "human_feedback"
       /\ w'.son_questions.present
       /\ ~w'.son_questions.hec
       /\ w'.decompose_iterations = state.decompose_iterations + 1]_vars

\* Every sub-question of the plan has a result, that is an execution_res
\* other than null.
PlanResolved(sq) ==
  /\ sq.present
  /\ Len(sq.qs) > 0
  /\ \A i \in 1..Len(sq.qs) : sq.qs[i].execution_res # Null

\* C12: when the existing plan has every sub-question resolved, and also
\* when the decompose-iteration counter has reached the configured
\* maximum, the decomposer routes to reporter and does not invoke the
\* decomposition model.
C12_SkipsDecomposition ==
  [][(/\ Ran("decomposer")
      /\ \/ PlanResolved(Plan)
         \/ state.decompose_iterations >= cfg.max_decompose_interations) =>
       /\ cmd'.goto = "reporter"
       /\ hist'.attempts = hist.attempts]_vars

\* C13: a validated output with has_enough_context = true makes the
\* decomposer route to reporter with the plan in its update, and from then
\* on the run has no further decomposition round: the decomposition model
\* is not invoked again (so no other plan can replace this one).
C13_FinalizedPlanNoFurtherRound ==
  [][/\ (Ran("decomposer") /\ cmd'.event = "enough_context") =>
          /\ cmd'.goto = "reporter"
          /\ "son_questions" \in cmd'.keys
     /\ hist.finalized => hist'.attempts = hist.attempts]_vars

AcceptedEvents == {"accepted", "accepted_keyword", "accepted_other"}

\* C14: human_feedback with auto-accept accepts without an interrupt;
\* without it, absent or empty feedback routes back to the decomposer and
\* feedback starting with the edit-plan marker routes back to the decomposer
\* with the feedback as a message, both leaving plan, answers, citations and
\* iteration counter as they were; an accepted plan routes to research_team
\* with the validated plan and the counter incremented by exactly one.
C14_HumanFeedbackRouting ==
  [][Ran("human_feedback") =>
       /\ cfg.auto_accepted_questions =>
            cmd'.event \in {"accepted", "parse_fail"}
       /\ cmd'.event \in {"empty_feedback", "edit_plan"} =>
            /\ ~cfg.auto_accepted_questions
            /\ cmd'.goto = "decomposer"
            /\ ("messages" \in cmd'.keys) <=> (cmd'.event = "edit_plan")
            /\ cmd'.keys \cap {"son_questions", "answers", "citations",
                               "decompose_iterations"} = {}
            /\ w'.son_questions = w.son_questions
            /\ w'.answers = w.answers
            /\ w'.decompose_iterations = w.decompose_iterations
       /\ cmd'.event \in AcceptedEvents =>
            /\ cmd'.goto = "research_team"
            /\ w'.son_questions.present
            /\ w'.son_questions.qs =
                 validate_and_fix_subquestions(
                   Plan.qs, cfg.enforce_web_search, cfg.enable_web_search)
            /\ w'.decompose_iterations = state.decompose_iterations + 1]_vars

\* C14 witness: the plan was accepted on feedback, the counter went from 0
\* to 1 and research_team is the node scheduled next.
C14_Witness ==
  /\ cmd.node = "human_feedback"
  /\ cmd.event = "accepted_keyword"
  /\ active = {"research_team"}
  /\ state.decompose_iterations = 1
  /\ Len(Plan.qs) > 0

\* C15: at the human-feedback checkpoint only feedback that contains an
\* approval keyword (case-insensitively) counts as approval; feedback
\* without one is a rejection and never sends the plan to research_team.
C15_OnlyKeywordFeedbackApproves ==
  (cmd.node = "human_feedback"
     /\ cmd.event \in {"accepted_other", "parse_fail_other"}) =>
    cmd.goto # "research_team"

\* The words of the vocabulary that contain an approval keyword when case
\* is ignored.
ApprovalWords == {"approved!", "YES", "token"}

SaysApproval(feedback) ==
  /\ ~feedback.none
  /\ \E i \in 1..Len(feedback.words) : feedback.words[i] \in ApprovalWords

ExplicitlyAssigned(c) ==
  CASE c.node = "coordinator" ->
         {"locale", "research_topic", "clarified_research_topic", "resources"}
    [] c.node = "human_feedback" /\ c.event \in AcceptedEvents -> {"locale"}
    [] OTHER -> {}

PreservedFields ==
  {"locale", "research_topic", "clarified_research_topic",
   "clarification_history", "clarification_rounds", "resources"}

\* C17: after every node transition the value of locale, research_topic,
\* clarified_research_topic, clarification_history, clarification_rounds
\* and resources, unless the transition assigns the field explicitly, is
\* the value the state had before the transition (a field the state lacks
\* being read as its default); w is the state with the updates of the
\* superstep, which the next nodes receive.
C17_MetaFieldsPreserved ==
  [][\A n \in Nodes :
       (Ran(n) /\ status' # "raised") =>
         \A k \in PreservedFields \ ExplicitlyAssigned(cmd') :
           MetaGet(w', k) = MetaGet(w, k)]_vars

\* C17 witness: a worker has run on a state whose locale was set from the
\* plan and whose topic came from the caller, and returned to research_team.
C17_Witness ==
  /\ cmd.node \in Workers
  /\ cmd.goto = "research_team"
  /\ state.meta["locale"] = "p"
  /\ state.meta["research_topic"] = "v"
  /\ Len(state.answers) > 0

\* C18: on a collector that only has citations added to it, a URL that
\* get_number has a number for keeps that number through every later
\* addition, also one that replaces or enriches the metadata of the URL.
C18_NumberingStable ==
  [][coll'.adds_only =>
       \A url \in Urls :
         get_number(coll.c, url) # 0 =>
           get_number(coll'.c, url) = get_number(coll.c, url)]_vars

\* C18 witness: "a" was added first and "b" second; the metadata of "a"
\* carries the higher score and crawled content.
C18_Witness ==
  /\ coll.adds_only
  /\ get_number(coll.c, "a") = 1
  /\ get_number(coll.c, "b") = 2
  /\ coll.c.citations["a"].relevance_score = 1
  /\ coll.c.citations["a"].raw_content

\* C19: after any sequence of add_from_search_results,
\* add_from_crawl_result and merge_with calls, duplicates included, count
\* is the number of distinct URLs added so far.
C19_CountIsDistinctUrls ==
  coll.adds_only => count(coll.c) = Cardinality(coll.ever)

\* C19 witness: three distinct URLs have been added and some are marked
\* used.
C19_Witness ==
  /\ coll.adds_only
  /\ count(coll.c) = 3
  /\ Cardinality(coll.ever) = 3
  /\ coll.c.used # {}

\* C20: after every operation of the collector the order list has no URL
\* twice, its URLs are the keys of the metadata map, the index map sends
\* every URL to its position in the order list, and the used set is a
\* subset of the order list.
C20_StructuralInvariant ==
  LET c == coll.c IN
  /\ \A i, j \in 1..Len(c.order) : c.order[i] = c.order[j] => i = j
  /\ OrderUrls(c) = DOMAIN c.citations
  /\ DOMAIN c.index = OrderUrls(c)
  /\ \A i \in 1..Len(c.order) :
       /\ c.index[c.order[i]] = i - 1
       /\ get_number(c, c.order[i]) = i
  /\ c.used \subseteq OrderUrls(c)

C22_TokenCountNotIncreased ==
  fn.done =>
    /\ count_tokens(fn.result) <= count_tokens(fn.messages)
    /\ count_tokens(fn.messages) <= fn.token_limit => fn.result = fn.messages

\* The number of messages of the input that the prefix covers.
PrefixLen ==
  IF fn.preserve_prefix_message_count < Len(fn.messages)
  THEN fn.preserve_prefix_message_count ELSE Len(fn.messages)

\* C23: the first preserve_prefix_message_count messages of the input (all
\* of them if it is shorter) are in the result at the positions they had,
\* also when the result is over the limit because of them.
C23_PrefixPreserved ==
  fn.done =>
    /\ Len(fn.result) >= PrefixLen
    /\ \A i \in 1..PrefixLen :
         /\ fn.result[i].pos = i
         /\ fn.result[i].type = fn.messages[i].type

\* C23 witness: step 2 ran with a prefix to preserve and dropped a message
\* behind it.
C23_Witness ==
  /\ fn.done
  /\ fn.step2
  /\ PrefixLen >= 1
  /\ Len(fn.result) < Len(fn.messages)

\* C24: whenever step 2 runs, the result is the preserved prefix followed by
\* retained messages that are the most recent ones of the input, in the
\* order they had in the input.
C24_RecentInOriginalOrder ==
  (fn.done /\ fn.step2) =>
    \E k \in 0..(Len(fn.messages) - PrefixLen) :
      /\ Len(fn.result) = PrefixLen + k
      /\ \A i \in 1..PrefixLen : fn.result[i].pos = i
      /\ \A j \in 1..k :
           fn.result[PrefixLen + j].pos = Len(fn.messages) - k + j

\* C25: for every plan dict and every setting of the two flags,
\* validate_and_fix_subquestions applied to its own output returns that
\* output unchanged.
C25_ValidationIdempotent ==
  fn.calls = 2 => fn.fixed = fn.before

\* C25 witness: the first call repaired a step_type, filled in the title
\* and enforced a search step, and the function was applied again.
C25_Witness ==
  /\ fn.calls = 2
  /\ fn.subquestions.title = ""
  /\ fn.fixed.title # ""
  /\ Len(fn.subquestions.qs) = 2
  /\ fn.subquestions.qs[1].step_type = ""
  /\ fn.fixed.qs[1].step_type = "research"
  /\ ~fn.subquestions.qs[1].need_search
  /\ fn.fixed.qs[1].need_search

\* Position of the first research-typed step of qs once missing step types
\* are filled in from need_search, 0 if there is none.
FirstResearchTyped(qs) ==
  LET typed(i) == IF qs[i].step_type = ""
                  THEN (IF qs[i].need_search THEN "research" ELSE "analysis")
                  ELSE qs[i].step_type
      S == {i \in 1..Len(qs) : typed(i) = "research"}
  IN  IF S = {} THEN 0 ELSE CHOOSE i \in S : \A j \in S : i <= j

\* C26: with both flags true the validated plan has a sub-question with
\* need_search = true; if the plan had none, the first research-typed step
\* is the one flipped, without such a step the first step becomes research
\* with need_search = true, and an empty list becomes one default research
\* step with need_search = true; with a flag false no need_search and no
\* step_type of an already typed step changes.
C26_WebSearchEnforced ==
  LET inq == fn.subquestions.qs
      out == fn.fixed.qs
      had == \E i \in 1..Len(inq) : inq[i].need_search
      r == FirstResearchTyped(inq)
  IN
  fn.calls = 1 =>
    /\ (fn.enforce_web_search /\ fn.enable_web_search) =>
         /\ \E i \in 1..Len(out) : out[i].need_search
         /\ (~had /\ Len(inq) = 0) =>
              /\ Len(out) = 1
              /\ out[1].step_type = "research"
              /\ out[1].need_search
         /\ (~had /\ Len(inq) > 0) =>
              /\ Len(out) = Len(inq)
              /\ LET f == IF r # 0 THEN r ELSE 1 IN
                 /\ out[f].step_type = "research"
                 /\ out[f].need_search
                 /\ \A i \in 1..Len(out) : i # f => ~out[i].need_search
    /\ ~(fn.enforce_web_search /\ fn.enable_web_search) =>
         /\ Len(out) = Len(inq)
         /\ \A i \in 1..Len(inq) :
              /\ out[i].need_search = inq[i].need_search
              /\ inq[i].step_type # "" => out[i].step_type = inq[i].step_type

\* C27: merge_with(other) appends the URLs of other that the collector does
\* not have, in the order they have in other; a URL the collector has keeps
\* its number and its metadata; the used set becomes the union of the two
\* used sets.
C27_MergeWith ==
  fn.op = "merge_with" =>
    LET self == fn.before
        other == fn.other
        IsNew(url) == url \notin DOMAIN self.citations
    IN  /\ fn.after.order = self.order \o SelectSeq(other.order, IsNew)
        /\ \A url \in DOMAIN self.citations :
             /\ get_number(fn.after, url) = get_number(self, url)
             /\ fn.after.citations[url] = self.citations[url]
        /\ \A url \in DOMAIN other.citations :
             IsNew(url) => fn.after.citations[url] = other.citations[url]
        /\ fn.after.used = self.used \cup other.used

\* C27 witness: other has a URL the collector has, with other metadata,
\* and a URL it has not; both have used URLs.
C27_Witness ==
  /\ fn.op = "merge_with"
  /\ \E url \in DOMAIN fn.before.citations \cap DOMAIN fn.other.citations :
       fn.before.citations[url] # fn.other.citations[url]
  /\ DOMAIN fn.other.citations \ DOMAIN fn.before.citations # {}
  /\ fn.before.used # {}
  /\ fn.other.used \ fn.before.used # {}

\* C28: from_dict(to_dict(c)) has the URL order of c, the number of c for
\* every URL, the used set of c and the metadata of c for every URL,
\* raw_content included.
C28_RoundTrip ==
  fn.op = "round_trip" =>
    /\ fn.after.order = fn.before.order
    /\ \A url \in Urls : get_number(fn.after, url) = get_number(fn.before, url)
    /\ fn.after.used = fn.before.used
    /\ DOMAIN fn.after.citations = DOMAIN fn.before.citations
    /\ \A url \in DOMAIN fn.before.citations :
         fn.after.citations[url] = fn.before.citations[url]

\* C29: add_from_crawl_result on a known URL replaces the title only if
\* the title was "Untitled" or empty, sets raw_content when content is
\* given, fills content_snippet only if there was none, and changes or
\* clears no other field that held information.
C29_CrawlOnlyEnriches ==
  (fn.op = "add_from_crawl_result" /\ fn.url \in DOMAIN fn.before.citations) =>
    LET old == fn.before.citations[fn.url]
        new == fn.after.citations[fn.url]
    IN  /\ new.title # old.title => old.title \in {"Untitled", ""}
        /\ fn.content => new.raw_content
        /\ old.raw_content => new.raw_content
        /\ old.content_snippet # "none" =>
             new.content_snippet = old.content_snippet
        /\ new.relevance_score = old.relevance_score
        /\ fn.after.order = fn.before.order
        /\ fn.after.used = fn.before.used

\* C30: from research_team with a plan of n sub-questions without
\* execution_res the loop research_team -> worker -> research_team makes at
\* most n worker visits, whatever the workers' outcomes are, and the run
\* does not end before the reporter.
C30_LoopEndsWithinNVisits ==
  /\ Len(w.answers) <= Len(state.son_questions.qs)
  /\ status # "raised"


\* The recursion limit was hit, the fallback is enabled and its model call
\* was made and returned.
FallbackSucceeded ==
  /\ fn.done
  /\ fn.kind = "reclimit"
  /\ fn.enable_recursion_fallback
  /\ Len(fn.messages) > 0
  /\ fn.fb # "fails"

\* The content class of the sanitized answer of the fallback model.
SanitizedFallback == IF fn.fb = "text" THEN "text" ELSE "empty"

\* The messages of the update are the accumulated transcript without its
\* trailing system messages, followed by one message of the fallback.
TailStripped ==
  LET kept == Len(fn.out.messages) - 1
  IN /\ kept >= 0
     /\ kept <= Len(fn.messages)
     /\ SubSeq(fn.out.messages, 1, kept) = SubSeq(fn.messages, 1, kept)
     /\ kept > 0 => fn.messages[kept].type # "system"
     /\ \A j \in (kept + 1)..Len(fn.messages) : fn.messages[j].type = "system"
     /\ fn.out.messages[kept + 1].content = SanitizedFallback

\* One model call, the sanitized output stored as execution_res, one
\* answer record for the step, back to research_team.
FallbackResultStored ==
  /\ fn.out.model_calls = 1
  /\ fn.out.execution_res.kind = SanitizedFallback
  /\ Len(fn.out.answers) = 1
  /\ fn.out.answers[1].question = 1
  /\ fn.out.answers[1].agent = fn.agent_name
  /\ fn.out.answers[1].answer.kind = SanitizedFallback
  /\ fn.out.goto = "research_team"

\* The transcript shows a use of web_search.
UsedWebSearch ==
  \E i \in 1..Len(fn.messages) :
    fn.messages[i].name = "web_search" \/ fn.messages[i].calls_search

\* C31 (as stated): when the recursion limit is hit with the fallback
\* enabled and the fallback call succeeds, the trailing system messages are
\* removed from the transcript, exactly one further model call is made, and
\* its sanitized output is the execution_res of the sub-question and the
\* content of the single answer record appended, nothing added to it; the
\* executor returns to research_team.
C31_FallbackResult ==
  FallbackSucceeded =>
    /\ TailStripped
    /\ FallbackResultStored
    /\ ~fn.out.answers[1].warned

\* C31 (amended): as above, except that the content of the answer record is
\* the sanitized output followed by the web-search warning exactly when the
\* worker is the researcher, web search is enabled and the transcript shows
\* no use of web_search.
C31_FallbackResultWithWarning ==
  FallbackSucceeded =>
    /\ TailStripped
    /\ FallbackResultStored
    /\ fn.out.answers[1].warned <=>
         (fn.agent_name = "researcher" /\ fn.enable_web_search
          /\ ~UsedWebSearch)

\* C31 witness: the researcher's transcript, ending in a system message and
\* showing no web search, went through a successful fallback; the tail was
\* dropped and the answer carries the warning.
C31_Witness ==
  /\ FallbackSucceeded
  /\ fn.agent_name = "researcher"
  /\ fn.messages[Len(fn.messages)].type = "system"
  /\ Len(fn.out.messages) = 2
  /\ Len(fn.messages) = 3
  /\ fn.out.answers[1].warned

\* C32: when the stream of the worker ends without any message, or the
\* recursion limit is hit before any message was accumulated and the
\* fallback is enabled, the executor does not raise: it records a result
\* for the current sub-question and returns to research_team.
C32_EmptyTranscriptNoRaise ==
  (/\ fn.done
   /\ Len(fn.messages) = 0
   /\ \/ fn.kind = "done"
      \/ fn.kind = "reclimit" /\ fn.enable_recursion_fallback)
  => /\ fn.out.exit # "raise"
     /\ Len(fn.out.answers) = 1
     /\ fn.out.goto = "research_team"

\* C33: whatever feedback the reviewer gives (none, edit-plan requests,
\* approvals), the decomposition model is invoked at most
\* max_decompose_interations times in a run.
C33_BoundedDecomposition ==
  hist.attempts <= cfg.max_decompose_interations

\* The worker the dispatcher sends a sub-question of the given type to.
WorkerFor(step_type) ==
  CASE step_type = "research" -> "researcher"
    [] step_type = "analysis" -> "analyst"
    [] OTHER -> "coder"

\* C34: in every state of a run of the dispatch loop that started with an
\* empty answer list, there are as many answer records as sub-questions
\* that have an execution_res, the i-th record is about the i-th
\* sub-question of the plan, and its agent is the worker the dispatcher
\* maps the step_type of that sub-question to.
C34_AnswerLog ==
  LET qs == state.son_questions.qs
      answers == state.answers
  IN status # "raised" =>
       /\ Len(answers) =
            Cardinality({i \in 1..Len(qs) : qs[i].execution_res # Null})
       /\ \A i \in 1..Len(answers) :
            /\ i <= Len(qs)
            /\ answers[i].question = qs[i].id
            /\ answers[i].agent = WorkerFor(qs[i].step_type)

\* The URLs of a citation list are pairwise different.
UrlUnique(list) ==
  \A i, j \in 1..Len(list) : list[i].url = list[j].url => i = j

\* C35: across every node transition of a run (successful steps, failed
\* steps, routing steps) no URL of the workflow's citation list disappears
\* or changes position, no URL is in the list twice, and the
\* relevance_score stored for a URL does not decrease.
C35_CitationsOnlyGrow ==
  [][/\ Len(fn'.citations) >= Len(fn.citations)
     /\ \A i \in 1..Len(fn.citations) :
          /\ fn'.citations[i].url = fn.citations[i].url
          /\ ScoreOf(fn'.citations[i]) >= ScoreOf(fn.citations[i])
     /\ UrlUnique(fn'.citations)]_vars

\* C36: when compress_messages runs on a list that is over the limit, the
\* list it returns is over token_limit only if the preserved prefix
\* messages alone are over token_limit.
C36_BudgetMetUnlessPrefixOver ==
  (/\ fn.done
   /\ count_tokens(fn.messages) > fn.token_limit
   /\ count_tokens(fn.result) > fn.token_limit)
  => count_tokens(SubSeq(fn.result, 1, PrefixLen)) > fn.token_limit

\* C37: once add_from_crawl_result has set raw_content for a URL, no later
\* call of add_from_search_results or add_from_crawl_result (a search
\* result for that URL with a higher relevance score included) leaves the
\* stored metadata of the URL without raw_content.
C37_CrawlContentKept ==
  [][(CollAddSearch \/ CollAddCrawl) =>
       \A url \in DOMAIN coll.c.citations :
         coll.c.citations[url].raw_content =>
           /\ url \in DOMAIN coll'.c.citations
           /\ coll'.c.citations[url].raw_content]_vars

\* The positions of the order list that hold a used URL.
UsedPositions(c) == {i \in 1..Len(c.order) : c.order[i] \in c.used}

\* The j-th of these positions, counted from the front.
NthUsedPosition(c, j) ==
  CHOOSE p \in UsedPositions(c) :
    Cardinality({q \in UsedPositions(c) : q <= p}) = j

RepairedType(q) ==
  IF q.step_type = "" THEN (IF q.need_search THEN "research" ELSE "analysis")
  ELSE q.step_type

\* has_enough_context is present after the call (false if it was missing)
\* and the title is not empty: the title given, else thought, else the
\* placeholder.
TopLevelFilled ==
  /\ fn.fixed.hec_key
  /\ fn.fixed.hec = (fn.subquestions.hec_key /\ fn.subquestions.hec)
  /\ fn.fixed.title # ""
  /\ fn.fixed.title =
       IF fn.subquestions.title # "" THEN fn.subquestions.title
       ELSE IF fn.subquestions.thought # "" THEN fn.subquestions.thought
       ELSE "Decomposition Result"

\* The fallback of the web-search enforcement applies: both flags are on,
\* no sub-question asks for a search and none is of type research.
EnforcementRetypes ==
  /\ fn.enforce_web_search
  /\ fn.enable_web_search
  /\ \A i \in 1..Len(fn.subquestions.qs) :
       /\ ~fn.subquestions.qs[i].need_search
       /\ RepairedType(fn.subquestions.qs[i]) # "research"

RoutingTools ==
  {"handoff_to_question_decomposer", "handoff_after_clarification",
   "direct_response"}

\* The position of the first of these calls in the response, 0 if none.
FirstRoutingCall ==
  LET S == {i \in 1..Len(fn.tool_calls) : fn.tool_calls[i] \in RoutingTools}
  IN  IF S = {} THEN 0 ELSE CHOOSE i \in S : \A j \in S : i <= j

\* C40: the first recognised tool call of the coordinator's response
\* decides: direct_response ends the run, handoff_to_question_decomposer and
\* handoff_after_clarification route to decomposer, or to
\* background_investigator when background investigation is enabled.
C40_CoordinatorRouting ==
  (fn.done /\ FirstRoutingCall # 0) =>
    fn.goto =
      IF fn.tool_calls[FirstRoutingCall] = "direct_response" THEN END
      ELSE IF fn.enable_background_investigation
      THEN "background_investigator"
      ELSE "decomposer"
====
